---- MODULE Spec2Model ----
(***************************************************************************)
(* standup-cli: the agent orchestration core and the commands around it.   *)
(*   src/src/agent/tools.ts  validateRepo, validateMember,                 *)
(*                           formatGitHubError, executeTool                *)
(*   src/src/agent/loop.ts   runAgentTurn, runAgentLoop,                   *)
(*                           runInteractiveAgent, buildToolContext,        *)
(*                           fetchCommitsByUser                            *)
(*   src/unnamed/part_004    fetchPRsByUser                                *)
(*   src/unnamed/part_003    fetchIssueActivityByUser                      *)
(*   src/src/setup.ts        updateConfig                                  *)
(*   src/src/cli.ts          main, runStandupJob                           *)
(*   src/src/ai/summarize.ts generateStandupNote                           *)
(*                                                                         *)
(* JavaScript is single threaded: code between two awaits runs atomically. *)
(* The actions below are therefore the external events (the inference call *)
(* returning or failing, one tool's upstream call returning or failing),   *)
(* each followed by all the code that runs until the next await.           *)
(***************************************************************************)
EXTENDS Integers, Sequences, FiniteSets, TLC

VARIABLES
    mode,           \* "autonomous" (runAgentLoop) or "interactive" (runInteractiveAgent)
    config,         \* AgentConfig handed to the session
    ctx,            \* ToolContext built by buildToolContext
    pc,             \* where the session is suspended
    linesRead,      \* runInteractiveAgent: input lines consumed so far
    userInput,      \* runInteractiveAgent: input, the last line read, trimmed
    iteration,      \* number of the turn in the running loop (interactive: i + 1)
    messages,       \* Anthropic.MessageParam[]: the conversation history
    toolUses,       \* runAgentTurn: tool_use blocks of the current response
    exec,           \* runAgentTurn: one record per promise of Promise.all
    completed,      \* indices of toolUses in the order their promises settled
    lastTurn,       \* what the last runAgentTurn did and returned
    inferenceCalls, \* number of anthropic.messages.create calls issued
    netLog,         \* upstream calls issued: data source and posting client
    console,        \* console.log lines that tell outcomes apart
    args,           \* cli.ts: field and value of the update command
    standupNotes,   \* runStandupJob: the notes generated so far
    nextMember,     \* runStandupJob: position of the for-of loop in team_members
    activity,       \* runStandupJob: what Promise.all fetched for the member
    thrown,         \* formatGitHubError: the value it is called with
    formatted,      \* formatGitHubError: what the call returned
    envFile,        \* ~/.standup-cli/.env, written next to config.json
    cronTask        \* startScheduler: the task of cron.schedule and its job runs

\* what the agent session leaves alone
cliVars == <<args, standupNotes, nextMember, activity, thrown, formatted, envFile, cronTask>>

vars == <<mode, config, ctx, pc, linesRead, userInput, iteration, messages, toolUses, exec,
          completed, lastTurn, inferenceCalls, netLog, console, cliVars>>

\* ------------------------------------------------------------------------
\* Bounds of the model
\* ------------------------------------------------------------------------

\* most tool_use blocks in one inference response
MaxToolUses == 2

\* an autonomous run's planner chooses freely among Responses in the last
\* RichTurns turns the loop allows and among TailResponses in the turns before
RichTurns == 1

\* most input lines an interactive session reads
MaxLines == 2

\* most ticks of the schedule
MaxTicks == 3

\* ------------------------------------------------------------------------
\* Values
\* ------------------------------------------------------------------------

MAX_ITERATIONS == 20

\* a field the planner left out of the tool input (JavaScript undefined)
UNDEFINED == "undefined"

\* String.prototype.toLowerCase on the identifiers the model uses
toLowerCase(s) ==
    CASE s = "ACME"  -> "acme"
      [] s = "Web"   -> "web"
      [] s = "Alice" -> "alice"
      [] s = "BOB"   -> "bob"
      [] s = "Bob"   -> "bob"
      [] s = "Acme"  -> "acme"
      [] s = "Exit"  -> "exit"
      [] s = "QUIT"  -> "quit"
      [] OTHER       -> s

TypeErrorText == "Cannot read properties of undefined (reading 'toLowerCase')"
RangeErrorText == "Invalid time zone specified"

\* Array.prototype.join writes an undefined element as the empty string
JoinElement(x) == IF x = UNDEFINED THEN "" ELSE x

RECURSIVE JoinFrom(_, _, _)
JoinFrom(list, sep, i) ==
    IF i > Len(list) THEN ""
    ELSE IF i = Len(list) THEN JoinElement(list[i])
    ELSE JoinElement(list[i]) \o sep \o JoinFrom(list, sep, i + 1)

\* Array.prototype.join
Join(list, sep) == JoinFrom(list, sep, 1)

\* the outcome of a synchronous piece of code
Returned(v) == [threw |-> FALSE, value |-> v]
Threw(e)    == [threw |-> TRUE, value |-> e]

\* what validateRepo and validateMember return
NoError == [denied |-> FALSE, text |-> ""]
Denial(text) == [denied |-> TRUE, text |-> text]

\* the string executeTool returns: JSON.stringify({error}), JSON.stringify(list)
\* or the plain confirmation sentence
ErrorPayload(text) == [kind |-> "error", body |-> <<text>>]
ListPayload(list)  == [kind |-> "list", body |-> list]
PlainPayload(text) == [kind |-> "plain", body |-> <<text>>]

\* ------------------------------------------------------------------------
\* tools.ts: validation helpers
\* ------------------------------------------------------------------------

RepoName(r) == r.owner \o "/" \o r.repo

\* a denial that names the first allowed repository only
RepoNamesFirstOnly(list) == IF list = <<>> THEN <<>> ELSE <<RepoName(list[1])>>

\* allowedRepos.map
RepoNames(list) == [i \in 1..Len(list) |-> RepoName(list[i])]

\* a check that compares the owner alone
RepoMatchesOwnerOnly(r, owner, repo) == toLowerCase(r.owner) = toLowerCase(owner)

\* a check that compares the strings as they are written
RepoMatchesCaseSensitive(r, owner, repo) == r.owner = owner /\ r.repo = repo

\* the callback of allowedRepos.some: && evaluates repo.toLowerCase() only
\* when the owners are equal
RepoMatches(r, owner, repo) ==
    toLowerCase(r.owner) = toLowerCase(owner) /\ toLowerCase(r.repo) = toLowerCase(repo)

validateRepo(owner, repo, c) ==
    IF ~c.hasAllowedRepos THEN Returned(NoError)
    ELSE IF /\ c.allowedRepos # <<>>
            /\ \/ owner = UNDEFINED
               \/ /\ repo = UNDEFINED
                  /\ \E i \in 1..Len(c.allowedRepos) :
                        toLowerCase(c.allowedRepos[i].owner) = toLowerCase(owner)
    THEN Threw(TypeErrorText)
    ELSE IF \E i \in 1..Len(c.allowedRepos) : RepoMatches(c.allowedRepos[i], owner, repo)
    THEN Returned(NoError)
    ELSE Returned(Denial(
            "Access denied: repository \"" \o owner \o "/" \o repo
            \o "\" is not in the configured list. Allowed repos: "
            \o Join(RepoNames(c.allowedRepos), ", ")))

\* a check that compares the usernames as they are written
MemberMatchesCaseSensitive(m, username) == m = username

MemberMatches(m, username) == toLowerCase(m) = toLowerCase(username)

validateMember(username, c) ==
    IF ~c.hasAllowedMembers THEN Returned(NoError)
    ELSE IF c.allowedMembers # <<>> /\ username = UNDEFINED
    THEN Threw(TypeErrorText)
    ELSE IF \E i \in 1..Len(c.allowedMembers) : MemberMatches(c.allowedMembers[i], username)
    THEN Returned(NoError)
    ELSE Returned(Denial(
            "Access denied: \"" \o username
            \o "\" is not a configured team member. Allowed members: "
            \o Join(c.allowedMembers, ", ")))

\* ------------------------------------------------------------------------
\* Upstream failures
\* ------------------------------------------------------------------------

\* what the messages of the data source's failures are made of
GitHubWords == { "Not Found", "404", "Bad credentials", "401", "rate limit", "403",
                 "not found", "ETIMEDOUT" }

\* a message of one word, or of two words as in "404: Not Found"
GitHubMessages ==
    GitHubWords \cup { a \o ": " \o b : a, b \in GitHubWords }

\* the words a message of GitHubMessages holds
WordsIn(msg) ==
    { w \in GitHubWords :
        \/ msg = w
        \/ \E v \in GitHubWords : msg = w \o ": " \o v \/ msg = v \o ": " \o w }

\* what the messages of the inference provider's failures are made of
ApiWords == { "401", "authentication", "429", "rate", "overloaded", "529", "timeout", "500" }

\* a message of one word, or of two words as in "529 overloaded"
ApiMessages == ApiWords \cup { a \o " " \o b : a, b \in ApiWords }

\* the words a message of ApiMessages holds; "rate" is also part of the data
\* source's "rate limit"
ApiWordsIn(msg) ==
    { w \in ApiWords :
        \/ msg = w
        \/ \E v \in ApiWords : msg = w \o " " \o v \/ msg = v \o " " \o w
        \/ w = "rate" /\ "rate limit" \in WordsIn(msg) }

\* the needles the code looks for with String.prototype.includes, per message
Substrings(msg) ==
    CASE msg = "Not Found"                     -> {"Not Found"}
      [] msg = "Bad credentials"               -> {"Bad credentials"}
      [] msg = "API rate limit exceeded"       -> {"rate limit", "rate"}
      [] msg = "getaddrinfo ENOTFOUND"         -> {}
      [] msg = "401 authentication_error"      -> {"401", "authentication"}
      [] msg = "429 rate_limit_error"          -> {"429", "rate"}
      [] msg = "529 overloaded_error"          -> {"529", "overloaded"}
      [] msg = "Connection error."             -> {}
      [] msg = "An API error occurred: invalid_auth"      -> {"invalid_auth"}
      [] msg = "An API error occurred: channel_not_found" -> {"channel_not_found"}
      [] msg = "An API error occurred: ratelimited"       -> {"rate"}
      [] OTHER                                 -> WordsIn(msg) \cup ApiWordsIn(msg)

Includes(msg, needle) == needle \in Substrings(msg)

\* a thrown value: an Error object with a message, or any other value
ErrorObject(msg) == [isError |-> TRUE, message |-> msg]

\* error.message holds something that is not a string (msg.includes is not a
\* function)
NotAString == "<not a string>"

\* a thrown value that is not an Error: a string, a number, null, undefined,
\* an object literal, or an object that has no toString (Object.create(null))
NonError(type, text) == [isError |-> FALSE, type |-> type, text |-> text]

\* String(value)
StringOf(v) ==
    CASE v.type = "string"      -> Returned(v.text)
      [] v.type = "number"      -> Returned(v.text)
      [] v.type = "null"        -> Returned("null")
      [] v.type = "undefined"   -> Returned("undefined")
      [] v.type = "object"      -> Returned("[object Object]")
      [] v.type = "bare object" -> Threw("Cannot convert object to primitive value")

\* error instanceof Error ? error.message : String(error)
MessageOf(error) == error.message

\* a mapping that looks for the rate limit first
formatGitHubErrorRateLimitFirst(error) ==
    IF ~error.isError THEN StringOf(error)
    ELSE IF error.message = NotAString THEN Threw("msg.includes is not a function")
    ELSE IF Includes(error.message, "rate limit") \/ Includes(error.message, "403")
    THEN Returned("GitHub API rate limit exceeded. Please wait a few minutes and try again.")
    ELSE IF Includes(error.message, "Not Found") \/ Includes(error.message, "404")
    THEN Returned("Repository or user not found. The repo may be private or the name may be incorrect.")
    ELSE IF Includes(error.message, "Bad credentials") \/ Includes(error.message, "401")
    THEN Returned("GitHub authentication failed. The token may be invalid or expired.")
    ELSE Returned(error.message)

formatGitHubError(error) ==
    IF ~error.isError THEN StringOf(error)
    ELSE IF error.message = NotAString THEN Threw("msg.includes is not a function")
    ELSE IF Includes(error.message, "Not Found") \/ Includes(error.message, "404")
    THEN Returned("Repository or user not found. The repo may be private or the name may be incorrect.")
    ELSE IF Includes(error.message, "Bad credentials") \/ Includes(error.message, "401")
    THEN Returned("GitHub authentication failed. The token may be invalid or expired.")
    ELSE IF Includes(error.message, "rate limit") \/ Includes(error.message, "403")
    THEN Returned("GitHub API rate limit exceeded. Please wait a few minutes and try again.")
    ELSE Returned(error.message)

\* what an upstream call does: it returns data or throws.  For a fetcher that
\* makes several requests, data of a failed outcome is what the earlier
\* requests had gathered.
UpstreamOk(data)         == [ok |-> TRUE, data |-> data, error |-> ErrorObject("")]
UpstreamFailed(data, msg) == [ok |-> FALSE, data |-> data, error |-> ErrorObject(msg)]

\* ------------------------------------------------------------------------
\* The data fetchers and the posting client
\* ------------------------------------------------------------------------

\* one listCommits request; the catch logs and returns []
fetchCommitsByUser(outcome) ==
    IF outcome.ok THEN Returned(outcome.data) ELSE Returned(<<>>)

\* several requests filling results; the catch logs and results is returned
fetchPRsByUser(outcome) == Returned(outcome.data)

fetchIssueActivityByUser(outcome) == Returned(outcome.data)

\* slack/post.ts: sends one message holding all notes, or throws
postStandupToSlack(outcome) ==
    IF outcome.ok THEN Returned(<<>>) ELSE Threw(outcome.error)

\* ------------------------------------------------------------------------
\* tools.ts: executeTool
\* ------------------------------------------------------------------------

ReadTools == {"fetch_commits", "fetch_pull_requests", "fetch_issues"}
PostTool  == "post_standup_to_slack"
ToolNames == ReadTools \cup {PostTool}

\* executeTool is suspended at its await of an upstream call
Awaiting(api) == [threw |-> FALSE, value |-> [kind |-> "await", body |-> <<api>>]]

IsAwaiting(r) == ~r.threw /\ r.value.kind = "await"

\* read cases that check the member before the repository
ReadToolStartMemberFirst(input, c) ==
    LET memberErr == validateMember(input.username, c) IN
    IF memberErr.threw THEN Threw(ErrorObject(memberErr.value))
    ELSE IF memberErr.value.denied THEN Returned(ErrorPayload(memberErr.value.text))
    ELSE LET repoErr == validateRepo(input.owner, input.repo, c) IN
         IF repoErr.threw THEN Threw(ErrorObject(repoErr.value))
         ELSE IF repoErr.value.denied THEN Returned(ErrorPayload(repoErr.value.text))
         ELSE Awaiting("github")

\* the three read cases up to their await
ReadToolStart(input, c) ==
    LET repoErr == validateRepo(input.owner, input.repo, c) IN
    IF repoErr.threw THEN Threw(ErrorObject(repoErr.value))
    ELSE IF repoErr.value.denied THEN Returned(ErrorPayload(repoErr.value.text))
    ELSE LET memberErr == validateMember(input.username, c) IN
         IF memberErr.threw THEN Threw(ErrorObject(memberErr.value))
         ELSE IF memberErr.value.denied THEN Returned(ErrorPayload(memberErr.value.text))
         ELSE Awaiting("github")

\* a posting step that trusts every username
IsInvalidUserNever(username, c) == FALSE

\* a posting step that compares the usernames as they are written
IsInvalidUserCaseSensitive(username, c) ==
    ~\E i \in 1..Len(c.allowedMembers) : c.allowedMembers[i] = username

IsInvalidUser(username, c) ==
    ~\E i \in 1..Len(c.allowedMembers) : MemberMatches(c.allowedMembers[i], username)

NoNotesPayload == ErrorPayload("No standup notes provided. Include at least one team member.")

\* a post case that filters the entries before it looks for them
PostToolStartMemberFirst(input, c) ==
    IF c.hasAllowedMembers /\ ~input.hasNotes THEN Threw(ErrorObject(TypeErrorText))
    ELSE IF /\ c.hasAllowedMembers
            /\ c.allowedMembers # <<>>
            /\ \E i \in 1..Len(input.notes) : input.notes[i] = UNDEFINED
    THEN Threw(ErrorObject(TypeErrorText))
    ELSE LET Invalid(u) == IsInvalidUser(u, c)
             invalidUsers == IF c.hasAllowedMembers
                             THEN SelectSeq(input.notes, Invalid) ELSE <<>>
         IN
         IF invalidUsers # <<>>
         THEN Returned(ErrorPayload(
                "Access denied: standup includes non-team members: "
                \o Join(invalidUsers, ", ") \o ". Allowed: "
                \o Join(c.allowedMembers, ", ")))
         ELSE IF ~input.hasNotes \/ input.notes = <<>> THEN Returned(NoNotesPayload)
         ELSE IF ~c.timezoneValid THEN Threw(ErrorObject(RangeErrorText))
         ELSE Awaiting("slack")

\* the post case up to its await
PostToolStart(input, c) ==
    IF ~input.hasNotes \/ input.notes = <<>>
    THEN Returned(NoNotesPayload)
    ELSE IF /\ c.hasAllowedMembers
            /\ c.allowedMembers # <<>>
            /\ \E i \in 1..Len(input.notes) : input.notes[i] = UNDEFINED
    THEN Threw(ErrorObject(TypeErrorText))
    ELSE LET Invalid(u) == IsInvalidUser(u, c)
             invalidUsers == IF c.hasAllowedMembers
                             THEN SelectSeq(input.notes, Invalid) ELSE <<>>
         IN
         IF invalidUsers # <<>>
         THEN Returned(ErrorPayload(
                "Access denied: standup includes non-team members: "
                \o Join(invalidUsers, ", ") \o ". Allowed: "
                \o Join(c.allowedMembers, ", ")))
         ELSE IF ~c.timezoneValid THEN Threw(ErrorObject(RangeErrorText))
         ELSE Awaiting("slack")

\* an executor that posts once per session
ExecuteToolStartPostingOnce(name, input, c) ==
    IF name \in ReadTools THEN ReadToolStart(input, c)
    ELSE IF name = PostTool
    THEN IF \E n \in netLog : n.api = "slack"
         THEN Returned(ErrorPayload("A standup was already posted in this session."))
         ELSE PostToolStart(input, c)
    ELSE Returned(ErrorPayload("Unknown tool: " \o name))

\* executeTool from its call to its first await, return or throw
ExecuteToolStart(name, input, c) ==
    IF name \in ReadTools THEN ReadToolStart(input, c)
    ELSE IF name = PostTool THEN PostToolStart(input, c)
    ELSE Returned(ErrorPayload("Unknown tool: " \o name))

\* an executor whose post case lets the failure of the posting client through
ExecuteToolResumeRethrowing(name, input, c, outcome) ==
    IF name \in ReadTools
    THEN LET fetched == CASE name = "fetch_commits"       -> fetchCommitsByUser(outcome)
                          [] name = "fetch_pull_requests" -> fetchPRsByUser(outcome)
                          [] name = "fetch_issues"        -> fetchIssueActivityByUser(outcome)
         IN IF fetched.threw
            THEN LET text == formatGitHubError(fetched.value) IN
                 IF text.threw THEN Threw(ErrorObject(text.value))
                 ELSE Returned(ErrorPayload(text.value))
            ELSE Returned(ListPayload(fetched.value))
    ELSE LET posted == postStandupToSlack(outcome) IN
         IF ~posted.threw
         THEN Returned(PlainPayload("Standup posted to Slack for "
                \o ToString(Len(input.notes)) \o " team member(s)."))
         ELSE Threw(posted.value)

\* executeTool from the settling of its upstream call to its return
ExecuteToolResume(name, input, c, outcome) ==
    IF name \in ReadTools
    THEN LET fetched == CASE name = "fetch_commits"       -> fetchCommitsByUser(outcome)
                          [] name = "fetch_pull_requests" -> fetchPRsByUser(outcome)
                          [] name = "fetch_issues"        -> fetchIssueActivityByUser(outcome)
         IN IF fetched.threw
            THEN LET text == formatGitHubError(fetched.value) IN
                 IF text.threw THEN Threw(ErrorObject(text.value))
                 ELSE Returned(ErrorPayload(text.value))
            ELSE Returned(ListPayload(fetched.value))
    ELSE LET posted == postStandupToSlack(outcome) IN
         IF ~posted.threw
         THEN Returned(PlainPayload("Standup posted to Slack for "
                \o ToString(Len(input.notes)) \o " team member(s)."))
         ELSE LET msg == MessageOf(posted.value) IN
              IF Includes(msg, "invalid_auth") \/ Includes(msg, "not_authed")
              THEN Returned(ErrorPayload("Slack authentication failed. Check your SLACK_USER_TOKEN."))
              ELSE IF Includes(msg, "channel_not_found")
              THEN Returned(ErrorPayload("Slack channel not found. Check your SLACK_CHANNEL_ID."))
              ELSE Returned(ErrorPayload("Slack posting failed: " \o msg))

\* ------------------------------------------------------------------------
\* loop.ts: the session's configuration and buildToolContext
\* ------------------------------------------------------------------------

Repo(owner, repo) == [owner |-> owner, repo |-> repo]

\* AgentConfig values of the sessions explored
\* the time zones Intl accepts, among those the model writes
TimeZones == {"Asia/Kolkata", "UTC"}

\* whether toLocaleDateString accepts the text as its timeZone option
IsTimeZone(text) == text \in TimeZones

\* timezoneValid is IsTimeZone(timezone)
SingleRepoConfig ==
    [team_members |-> <<"alice", "Bob">>, github_owner |-> "acme", github_repo |-> "web",
     hasGithubRepos |-> FALSE, github_repos |-> <<>>,
     timezone |-> "Asia/Kolkata", timezoneValid |-> TRUE,
     lookback_hours |-> 24, schedule |-> "0 10 * * 1-5",
     github_token |-> "ghp_1", slack_user_token |-> "xoxp-1", slack_channel_id |-> "C01",
     anthropic_api_key |-> "sk-ant-1"]

Configs == {
    SingleRepoConfig,
    [SingleRepoConfig EXCEPT
        !.team_members = <<"alice", "carol">>,
        !.hasGithubRepos = TRUE,
        !.github_repos = <<Repo("acme", "web"), Repo("beta", "infra")>>] }

\* the content of .env as writeConfig writes it
EnvOf(cfg) ==
    [GITHUB_TOKEN      |-> cfg.github_token,
     GITHUB_OWNER      |-> cfg.github_owner,
     GITHUB_REPO       |-> cfg.github_repo,
     SLACK_USER_TOKEN  |-> cfg.slack_user_token,
     SLACK_CHANNEL_ID  |-> cfg.slack_channel_id,
     ANTHROPIC_API_KEY |-> cfg.anthropic_api_key]

\* a context built without the member allow-list
buildToolContextWithoutMembers(cfg) ==
    [since             |-> "now - lookback_hours",
     slackToken        |-> "SLACK_USER_TOKEN",
     slackChannelId    |-> "SLACK_CHANNEL_ID",
     hasAllowedRepos   |-> TRUE,
     allowedRepos      |-> IF cfg.hasGithubRepos THEN cfg.github_repos
                           ELSE <<Repo(cfg.github_owner, cfg.github_repo)>>,
     hasAllowedMembers |-> FALSE,
     allowedMembers    |-> <<>>,
     timezoneValid     |-> cfg.timezoneValid]

\* since, the token and the channel id are carried along and never tested
buildToolContext(cfg) ==
    [since             |-> "now - lookback_hours",
     slackToken        |-> "SLACK_USER_TOKEN",
     slackChannelId    |-> "SLACK_CHANNEL_ID",
     hasAllowedRepos   |-> TRUE,
     allowedRepos      |-> IF cfg.hasGithubRepos THEN cfg.github_repos
                           ELSE <<Repo(cfg.github_owner, cfg.github_repo)>>,
     hasAllowedMembers |-> TRUE,
     allowedMembers    |-> cfg.team_members,
     timezoneValid     |-> cfg.timezoneValid]

\* ------------------------------------------------------------------------
\* The planner: what an inference response may hold
\* ------------------------------------------------------------------------

NoInput == [owner |-> UNDEFINED, repo |-> UNDEFINED, username |-> UNDEFINED,
            hasNotes |-> FALSE, notes |-> <<>>]

ReadInput(owner, repo, username) ==
    [owner |-> owner, repo |-> repo, username |-> username, hasNotes |-> FALSE, notes |-> <<>>]

\* standup_notes, each entry reduced to its username: yesterday, today and
\* blockers are copied to the posting client and never tested
PostInput(notes) == [NoInput EXCEPT !.hasNotes = TRUE, !.notes = notes]

NoId == <<0, 0>>

Text(text) == [type |-> "text", text |-> text, id |-> NoId, name |-> "", input |-> NoInput]

ToolUse(name, input) ==
    [type |-> "tool_use", text |-> "", id |-> NoId, name |-> name, input |-> input]

IsToolUse(block) == block.type = "tool_use"

\* allowed for the first session, a member denial for the second
FetchCall == ToolUse("fetch_commits", ReadInput("ACME", "web", "BOB"))

\* a standup the first session may post
PostCall == ToolUse(PostTool, PostInput(<<"Bob">>))

\* the tool_use blocks the planner builds its responses from
Blocks == {
    FetchCall,
    ToolUse("fetch_pull_requests", ReadInput("acme", "web", UNDEFINED)),
    ToolUse(PostTool, PostInput(<<"Alice", "carol">>)),
    ToolUse(PostTool, PostInput(<<>>)) }

\* a planner that keeps calling a tool that does not exist
TailCall == ToolUse("delete_repo", NoInput)

\* up to MaxToolUses blocks, a text block first or none
Responses ==
    UNION { [1..n -> Blocks] : n \in 1..MaxToolUses }
        \cup { <<Text("thinking")>> \o calls :
                 calls \in UNION { [1..n -> Blocks] : n \in 0..(MaxToolUses - 1) } }

TailResponses == { <<Text("answer")>>, <<TailCall>> }

ResponsesAt(m, turn) ==
    IF m = "autonomous"
    THEN IF turn > MAX_ITERATIONS - RichTurns THEN Responses ELSE TailResponses
    ELSE IF turn = MAX_ITERATIONS - 1 THEN {<<TailCall>>, <<FetchCall, TailCall>>}
    ELSE IF turn = MAX_ITERATIONS THEN TailResponses \cup {<<PostCall>>}
    ELSE IF turn = 1 THEN TailResponses
    ELSE {<<TailCall>>}

\* the provider gives every tool_use block of a response its own id
WithIds(content, call) ==
    [j \in 1..Len(content) |->
        IF IsToolUse(content[j]) THEN [content[j] EXCEPT !.id = <<call, j>>]
        ELSE content[j]]

\* messages of a failed anthropic.messages.create
ApiErrors(m, turn) ==
    IF m = "autonomous" THEN {"401 authentication_error", "Connection error."}
    ELSE IF turn \in {1, MAX_ITERATIONS} THEN {"529 overloaded_error"}
    ELSE {}

\* outcomes of the upstream call a tool awaits; the failures of the posting
\* client are explored one kind per command: the channel is missing or the
\* client is throttled in an interactive session, the token is refused
\* elsewhere
UpstreamOutcomes(api) ==
    IF api = "github"
    THEN {UpstreamOk(<<"item">>), UpstreamFailed(<<>>, "Not Found")}
    ELSE IF mode = "interactive"
    THEN {UpstreamOk(<<>>), UpstreamFailed(<<>>, "An API error occurred: channel_not_found"),
          UpstreamFailed(<<>>, "An API error occurred: ratelimited")}
    ELSE {UpstreamOk(<<>>), UpstreamFailed(<<>>, "An API error occurred: invalid_auth")}

\* ------------------------------------------------------------------------
\* loop.ts: runAgentTurn
\* ------------------------------------------------------------------------

Message(role, content) == [role |-> role, content |-> content]

\* a callback that flags every error payload
ToolResultBlockFlaggingErrors(toolUse, r) ==
    IF r.threw
    THEN [type |-> "tool_result", tool_use_id |-> toolUse.id,
          content |-> ErrorPayload(MessageOf(r.value)), is_error |-> TRUE]
    ELSE [type |-> "tool_result", tool_use_id |-> toolUse.id,
          content |-> r.value, is_error |-> r.value.kind = "error"]

\* the block one callback of toolUses.map returns: the try branch with the
\* string executeTool returned, the catch branch with is_error
ToolResultBlock(toolUse, r) ==
    IF r.threw
    THEN [type |-> "tool_result", tool_use_id |-> toolUse.id,
          content |-> ErrorPayload(MessageOf(r.value)), is_error |-> TRUE]
    ELSE [type |-> "tool_result", tool_use_id |-> toolUse.id,
          content |-> r.value, is_error |-> FALSE]

\* one promise of Promise.all: api is the upstream call it awaits or awaited,
\* upstream how that call ended, failure the message of the error it threw,
\* threw whether executeTool raised
Pending(toolUse, api) ==
    [settled |-> FALSE, api |-> api, upstream |-> "pending", failure |-> "", threw |-> FALSE,
     result |-> ToolResultBlock(toolUse, Returned([kind |-> "pending", body |-> <<>>]))]

Settled(toolUse, api, upstream, r) ==
    [settled |-> TRUE, api |-> api, upstream |-> upstream, failure |-> "", threw |-> r.threw,
     result |-> ToolResultBlock(toolUse, r)]

\* the callback of toolUses.map up to its first suspension
StartToolUse(toolUse, c) ==
    LET r == ExecuteToolStart(toolUse.name, toolUse.input, c) IN
    IF IsAwaiting(r) THEN Pending(toolUse, r.value.body[1])
    ELSE Settled(toolUse, "none", "none", r)

\* the callback of toolUses.map from the settling of the upstream call on
ResumeToolUse(toolUse, c, api, outcome) ==
    [Settled(toolUse, api, IF outcome.ok THEN "ok" ELSE "failed",
             ExecuteToolResume(toolUse.name, toolUse.input, c, outcome))
        EXCEPT !.failure = IF outcome.ok THEN "" ELSE MessageOf(outcome.error)]

\* a join that resumes as soon as one promise settled
AnySettled(e) == \E i \in 1..Len(e) : e[i].settled

AllSettled(e) == \A i \in 1..Len(e) : e[i].settled

\* a join that collects the results as the promises settle
ToolResultsInCompletionOrder(e, order) == [k \in 1..Len(order) |-> e[order[k]].result]

\* a join that leaves out the results of failed executions
ToolResultsWithoutFailures(e, order) ==
    LET Succeeded(block) == block.content.kind # "error" IN
    SelectSeq([i \in 1..Len(e) |-> e[i].result], Succeeded)

\* Promise.all resolves to the results in the order of toolUses
ToolResults(e, order) == [i \in 1..Len(e) |-> e[i].result]

\* console lines of the catch branches that ran
ToolErrorLines(e, indices) ==
    LET Raised(i) == e[i].threw IN
    [k \in 1..Len(SelectSeq(indices, Raised)) |-> "tool_error"]

\* a catch that lets the loop try again after a transient failure
DoneOnApiErrorRetrying(msg) == ~(Includes(msg, "529") \/ Includes(msg, "429"))

\* what runAgentTurn returns from the catch around anthropic.messages.create
DoneOnApiError(msg) == TRUE

\* a catch that looks for the rate limit first
ClassifyApiErrorRateLimitFirst(msg) ==
    IF Includes(msg, "429") \/ Includes(msg, "rate") THEN "api_error: rate limit"
    ELSE IF Includes(msg, "401") \/ Includes(msg, "authentication") THEN "api_error: authentication"
    ELSE IF Includes(msg, "overloaded") \/ Includes(msg, "529") THEN "api_error: overloaded"
    ELSE "api_error: " \o msg

\* the branch of that catch
ClassifyApiError(msg) ==
    IF Includes(msg, "401") \/ Includes(msg, "authentication") THEN "api_error: authentication"
    ELSE IF Includes(msg, "429") \/ Includes(msg, "rate") THEN "api_error: rate limit"
    ELSE IF Includes(msg, "overloaded") \/ Includes(msg, "529") THEN "api_error: overloaded"
    ELSE "api_error: " \o msg

\* ------------------------------------------------------------------------
\* loop.ts: runAgentLoop and runInteractiveAgent
\* ------------------------------------------------------------------------

TaskPrompt == Message("user", <<Text("task")>>)

\* no runAgentTurn has returned yet
NoTurn == [done |-> FALSE, why |-> "none", turn |-> 0, call |-> 0, line |-> 0]

\* String.prototype.trim on the input lines the model uses
trim(line) ==
    CASE line = "  "     -> ""
      [] line = " Exit " -> "Exit"
      [] line = " what did Bob do? " -> "what did Bob do?"
      [] OTHER           -> line

\* what the user may type
Lines == {"", "  ", "exit", " Exit ", "QUIT", " what did Bob do? "}

\* a comparison that does not fold the case
IsExitCaseSensitive(text) == text = "exit" \/ text = "quit"

\* the test that leaves the for await loop
IsExit(text) == toLowerCase(text) = "exit" \/ toLowerCase(text) = "quit"

\* a loop without the break
LoopEndsAtCapOnly(done, turn) == turn = MAX_ITERATIONS

\* a loop whose bound is off by one
LoopEndsOneLate(done, turn) == done \/ turn = MAX_ITERATIONS + 1

\* runAgentLoop: the loop is left by the break or by iteration <= MAX_ITERATIONS
AutonomousLoopEnds(done, turn) == done \/ turn = MAX_ITERATIONS

\* runInteractiveAgent: the sub-loop is left by the break or by i < MAX_ITERATIONS
InteractiveLoopEnds(done, turn) == done \/ turn = MAX_ITERATIONS

\* a loop that warns whenever its last iteration was used
StopLineWarningAtCap(done, turn) ==
    IF turn = MAX_ITERATIONS THEN "max_iterations" ELSE "finished"

\* runAgentLoop: the line logged when the loop is left, "Agent finished" before
\* the break or "Agent hit max iterations"
StopLine(done, turn) == IF done THEN "finished" ELSE "max_iterations"

\* drivers that tell a failed inference call from a finished task: the run
\* ends Failed and the sub-loop ends the session
LoopAfterTurnWithFailedOutcome(done, why, lines) ==
    /\ lastTurn' = [done |-> done, why |-> why, turn |-> iteration,
                    call |-> inferenceCalls, line |-> linesRead]
    /\ IF why = "api_error"
       THEN /\ console' = console \o lines \o <<"failed">>
            /\ pc' = "failed"
            /\ UNCHANGED <<iteration, inferenceCalls>>
       ELSE IF mode = "autonomous"
       THEN IF AutonomousLoopEnds(done, iteration)
            THEN /\ console' = console \o lines \o <<StopLine(done, iteration)>>
                 /\ pc' = "stopped"
                 /\ UNCHANGED <<iteration, inferenceCalls>>
            ELSE /\ console' = console \o lines
                 /\ pc' = "awaiting"
                 /\ iteration' = iteration + 1
                 /\ inferenceCalls' = inferenceCalls + 1
       ELSE IF InteractiveLoopEnds(done, iteration)
            THEN /\ console' = console \o lines
                 /\ pc' = "reading"
                 /\ UNCHANGED <<iteration, inferenceCalls>>
            ELSE /\ console' = console \o lines
                 /\ pc' = "awaiting"
                 /\ iteration' = iteration + 1
                 /\ inferenceCalls' = inferenceCalls + 1

\* the rest of the loop body after runAgentTurn returned done, and the loop's
\* next step; lines are the console lines the turn wrote
LoopAfterTurn(done, why, lines) ==
    /\ lastTurn' = [done |-> done, why |-> why, turn |-> iteration,
                    call |-> inferenceCalls, line |-> linesRead]
    /\ IF mode = "autonomous"
       THEN IF AutonomousLoopEnds(done, iteration)
            THEN /\ console' = console \o lines \o <<StopLine(done, iteration)>>
                 /\ pc' = "stopped"
                 /\ UNCHANGED <<iteration, inferenceCalls>>
            ELSE /\ console' = console \o lines
                 /\ pc' = "awaiting"
                 /\ iteration' = iteration + 1
                 /\ inferenceCalls' = inferenceCalls + 1
       ELSE IF InteractiveLoopEnds(done, iteration)
            THEN /\ console' = console \o lines
                 /\ pc' = "reading"
                 /\ UNCHANGED <<iteration, inferenceCalls>>
            ELSE /\ console' = console \o lines
                 /\ pc' = "awaiting"
                 /\ iteration' = iteration + 1
                 /\ inferenceCalls' = inferenceCalls + 1

\* a driver that keeps only the latest results in the history
JoinTurnTruncating(history, e, order, lines) ==
    /\ messages' = <<Message("user", ToolResults(e, order))>>
    /\ LoopAfterTurn(FALSE, "tool_results", lines)

\* a driver that stops at the cap without answering the calls of its last turn
JoinTurnUnansweredAtCap(history, e, order, lines) ==
    /\ messages' = IF iteration = MAX_ITERATIONS THEN history
                   ELSE Append(history, Message("user", ToolResults(e, order)))
    /\ LoopAfterTurn(FALSE, "tool_results", lines)

\* runAgentTurn after Promise.all resolved: push the results, return false
JoinTurn(history, e, order, lines) ==
    /\ messages' = Append(history, Message("user", ToolResults(e, order)))
    /\ LoopAfterTurn(FALSE, "tool_results", lines)

\* startScheduler was not called
NoTask == [zoneChecked |-> FALSE, runs |-> <<>>]

\* no command of cli.ts other than the agent session is running
CliIdle ==
    /\ args = <<>>
    /\ standupNotes = <<>>
    /\ nextMember = 0
    /\ activity = <<>>
    /\ thrown = <<>>
    /\ formatted = <<>>
    /\ envFile = EnvOf(config)
    /\ cronTask = NoTask

\* a run that puts the system prompt into the history, before the task prompt
InitAutonomousWithSystemEntry ==
    /\ mode = "autonomous"
    /\ config \in Configs
    /\ ctx = buildToolContext(config)
    /\ messages = <<Message("user", <<Text("system")>>), TaskPrompt>>
    /\ linesRead = 0
    /\ userInput = ""
    /\ iteration = 1
    /\ inferenceCalls = 1
    /\ pc = "awaiting"
    /\ toolUses = <<>>
    /\ exec = <<>>
    /\ completed = <<>>
    /\ lastTurn = NoTurn
    /\ netLog = {}
    /\ console = <<>>
    /\ CliIdle

\* runAgentLoop up to its first anthropic.messages.create
InitAutonomous ==
    /\ mode = "autonomous"
    /\ config \in Configs
    /\ ctx = buildToolContext(config)
    /\ messages = <<TaskPrompt>>
    /\ linesRead = 0
    /\ userInput = ""
    /\ iteration = 1
    /\ inferenceCalls = 1
    /\ pc = "awaiting"
    /\ toolUses = <<>>
    /\ exec = <<>>
    /\ completed = <<>>
    /\ lastTurn = NoTurn
    /\ netLog = {}
    /\ console = <<>>
    /\ CliIdle

\* runInteractiveAgent up to its await of users.getAuthenticated
InitInteractive ==
    /\ mode = "interactive"
    /\ config = SingleRepoConfig
    /\ ctx = buildToolContext(config)
    /\ messages = <<>>
    /\ linesRead = 0
    /\ userInput = ""
    /\ iteration = 0
    /\ inferenceCalls = 0
    /\ pc = "verifying"
    /\ toolUses = <<>>
    /\ exec = <<>>
    /\ completed = <<>>
    /\ lastTurn = NoTurn
    /\ netLog = {}
    /\ console = <<>>
    /\ CliIdle

Init == InitAutonomous \/ InitInteractive

\* a session that ends when the token cannot be verified
IdentityCheckedBlocking ==
    /\ pc = "verifying"
    /\ \E verified \in BOOLEAN :
          /\ console' = Append(console, IF verified THEN "github_verified" ELSE "github_unverified")
          /\ pc' = IF verified THEN "reading" ELSE "stopped"
    /\ UNCHANGED cliVars
    /\ UNCHANGED <<mode, config, ctx, userInput, linesRead, iteration, messages, toolUses, exec,
                   completed, lastTurn, inferenceCalls, netLog>>

\* a session that narrows the member allow-list to the verified account
IdentityCheckedNarrowingContext ==
    /\ pc = "verifying"
    /\ \E verified \in BOOLEAN :
          /\ console' = Append(console, IF verified THEN "github_verified" ELSE "github_unverified")
          /\ ctx' = IF verified THEN [ctx EXCEPT !.allowedMembers = <<"alice">>] ELSE ctx
    /\ pc' = "reading"
    /\ UNCHANGED cliVars
    /\ UNCHANGED <<mode, config, userInput, linesRead, iteration, messages, toolUses, exec,
                   completed, lastTurn, inferenceCalls, netLog>>

\* users.getAuthenticated returns or throws; either way the prompt is shown
IdentityChecked ==
    /\ pc = "verifying"
    /\ \E verified \in BOOLEAN :
          console' = Append(console, IF verified THEN "github_verified" ELSE "github_unverified")
    /\ pc' = "reading"
    /\ UNCHANGED cliVars
    /\ UNCHANGED <<mode, config, ctx, userInput, linesRead, iteration, messages, toolUses, exec,
                   completed, lastTurn, inferenceCalls, netLog>>

\* a loop that serves every line, blank or not
LineReadServingBlankLines ==
    /\ pc = "reading"
    /\ linesRead < MaxLines
    /\ linesRead' = linesRead + 1
    /\ \E line \in Lines :
          /\ userInput' = trim(line)
          /\ IF userInput' # "" /\ IsExit(userInput')
             THEN /\ pc' = "stopped"
                  /\ console' = Append(console, "bye")
                  /\ UNCHANGED <<iteration, messages, inferenceCalls>>
             ELSE /\ messages' = Append(messages, Message("user", <<Text(userInput')>>))
                  /\ iteration' = 1
                  /\ inferenceCalls' = inferenceCalls + 1
                  /\ pc' = "awaiting"
                  /\ UNCHANGED console
    /\ UNCHANGED cliVars
    /\ UNCHANGED <<mode, config, ctx, toolUses, exec, completed, lastTurn, netLog>>

\* the for await loop receives one line
LineRead ==
    /\ pc = "reading"
    /\ linesRead < MaxLines
    /\ linesRead' = linesRead + 1
    /\ \E line \in Lines :
          /\ userInput' = trim(line)
          /\ IF userInput' = ""
             THEN UNCHANGED <<pc, iteration, messages, inferenceCalls, console>>
             ELSE IF IsExit(userInput')
             THEN /\ pc' = "stopped"
                  /\ console' = Append(console, "bye")
                  /\ UNCHANGED <<iteration, messages, inferenceCalls>>
             ELSE /\ messages' = Append(messages, Message("user", <<Text(userInput')>>))
                  /\ iteration' = 1
                  /\ inferenceCalls' = inferenceCalls + 1
                  /\ pc' = "awaiting"
                  /\ UNCHANGED console
    /\ UNCHANGED cliVars
    /\ UNCHANGED <<mode, config, ctx, toolUses, exec, completed, lastTurn, netLog>>

\* standard input ends: the for await loop is over
InputCloses ==
    /\ pc = "reading"
    /\ pc' = "stopped"
    /\ console' = Append(console, "bye")
    /\ UNCHANGED cliVars
    /\ UNCHANGED <<mode, config, ctx, userInput, linesRead, iteration, messages, toolUses, exec,
                   completed, lastTurn, inferenceCalls, netLog>>

\* a failed call that takes the last entry back out of the history
InferenceFailsRollingBack ==
    /\ pc = "awaiting"
    /\ \E msg \in ApiErrors(mode, iteration) :
          LoopAfterTurn(DoneOnApiError(msg), "api_error", <<ClassifyApiError(msg)>>)
    /\ messages' = SubSeq(messages, 1, Len(messages) - 1)
    /\ UNCHANGED cliVars
    /\ UNCHANGED <<mode, config, ctx, userInput, linesRead, toolUses, exec, completed, netLog>>

\* anthropic.messages.create throws
InferenceFails ==
    /\ pc = "awaiting"
    /\ \E msg \in ApiErrors(mode, iteration) :
          LoopAfterTurn(DoneOnApiError(msg), "api_error", <<ClassifyApiError(msg)>>)
    /\ UNCHANGED cliVars
    /\ UNCHANGED <<mode, config, ctx, userInput, linesRead, messages, toolUses, exec, completed, netLog>>

\* a turn that records a response only when it calls a tool
PushAssistantIfToolUse(history, content) ==
    IF SelectSeq(content, IsToolUse) = <<>> THEN history
    ELSE Append(history, Message("assistant", content))

\* messages.push({ role: "assistant", content: response.content })
PushAssistant(history, content) == Append(history, Message("assistant", content))

\* a turn that takes any text of the response for the final answer
TerminalOnText(content) == \E j \in 1..Len(content) : content[j].type = "text"

\* toolUses.length === 0: the response holds no tool_use block
Terminal(content) == SelectSeq(content, IsToolUse) = <<>>

\* anthropic.messages.create returns a response
InferenceReturns ==
    /\ pc = "awaiting"
    /\ \E response \in ResponsesAt(mode, iteration) :
          LET content == WithIds(response, inferenceCalls)
              history == PushAssistant(messages, content)
              uses    == SelectSeq(content, IsToolUse)
              started == [i \in 1..Len(uses) |-> StartToolUse(uses[i], ctx)]
              Ready(i) == started[i].settled
              settledNow == SelectSeq([i \in 1..Len(uses) |-> i], Ready)
          IN
          /\ toolUses' = uses
          /\ exec' = started
          /\ completed' = settledNow
          /\ netLog' = netLog \cup
                { [id |-> uses[i].id, api |-> started[i].api] :
                    i \in {k \in 1..Len(uses) : ~started[k].settled} }
          /\ IF Terminal(content)
             THEN /\ messages' = history
                  /\ LoopAfterTurn(TRUE, "no_tool_use", <<>>)
             ELSE IF AllSettled(started)
             THEN JoinTurn(history, started, settledNow, ToolErrorLines(started, settledNow))
             ELSE /\ messages' = history
                  /\ pc' = "executing"
                  /\ console' = console \o ToolErrorLines(started, settledNow)
                  /\ UNCHANGED <<iteration, inferenceCalls, lastTurn>>
    /\ UNCHANGED cliVars
    /\ UNCHANGED <<mode, config, ctx, userInput, linesRead>>

\* the upstream call of one pending tool execution returns or throws
ToolSettles ==
    /\ pc = "executing"
    /\ \E i \in 1..Len(exec) :
          /\ ~exec[i].settled
          /\ \E outcome \in UpstreamOutcomes(exec[i].api) :
                LET e == [exec EXCEPT ![i] = ResumeToolUse(toolUses[i], ctx, exec[i].api, outcome)]
                    order == Append(completed, i)
                IN
                /\ exec' = e
                /\ completed' = order
                /\ IF AllSettled(e)
                   THEN JoinTurn(messages, e, order, ToolErrorLines(e, <<i>>))
                   ELSE /\ console' = console \o ToolErrorLines(e, <<i>>)
                        /\ UNCHANGED <<messages, pc, iteration, inferenceCalls, lastTurn>>
    /\ UNCHANGED cliVars
    /\ UNCHANGED <<mode, config, ctx, userInput, linesRead, toolUses, netLog>>

NextAutonomous == InferenceFails \/ InferenceReturns \/ ToolSettles

Next == IdentityChecked \/ LineRead \/ InputCloses \/ NextAutonomous

Spec == Init /\ [][Next]_vars

\* ------------------------------------------------------------------------
\* One tool execution on its own: executeTool as runAgentTurn calls it, for
\* every ToolContext a caller may build (both allow-lists are optional)
\* ------------------------------------------------------------------------

ExecContexts ==
    { [hasAllowedRepos |-> repos.has, allowedRepos |-> repos.list,
       hasAllowedMembers |-> members.has, allowedMembers |-> members.list,
       timezoneValid |-> tz] :
        repos \in { [has |-> FALSE, list |-> <<>>],
                    [has |-> TRUE, list |-> <<>>],
                    [has |-> TRUE, list |-> <<Repo("Acme", "web")>>],
                    [has |-> TRUE, list |-> <<Repo("acme", "web"), Repo("beta", "infra")>>] },
        members \in { [has |-> FALSE, list |-> <<>>],
                      [has |-> TRUE, list |-> <<>>],
                      [has |-> TRUE, list |-> <<"alice", "Bob">>] },
        tz \in BOOLEAN }

ExecCalls ==
    { ToolUse(name, ReadInput(owner, repo, username)) :
        name \in ReadTools,
        owner \in {"acme", "ACME", "beta", UNDEFINED},
        repo \in {"web", "Web", "we", "infra", UNDEFINED},
        username \in {"alice", "BOB", "ali", "carol", UNDEFINED} }
    \cup { ToolUse(PostTool, PostInput(notes)) :
        notes \in { <<>>, <<"alice">>, <<"Alice", "BOB">>, <<"alice", "carol">>,
                    <<"carol", "alice">>, <<"dave", "carol">>, <<UNDEFINED>>,
                    <<"alice", UNDEFINED>> } }
    \cup { ToolUse(PostTool, NoInput), ToolUse("delete_repo", NoInput), ToolUse("", NoInput) }

\* outcomes of the upstream call of one tool; listCommits is a single request
ExecOutcomes(name) ==
    IF name = PostTool
    THEN { UpstreamOk(<<>>),
           UpstreamFailed(<<>>, "An API error occurred: invalid_auth"),
           UpstreamFailed(<<>>, "An API error occurred: channel_not_found"),
           UpstreamFailed(<<>>, "An API error occurred: ratelimited") }
    ELSE { UpstreamOk(<<>>), UpstreamOk(<<"item">>),
           UpstreamFailed(<<>>, "Not Found"),
           UpstreamFailed(<<>>, "API rate limit exceeded") }
         \cup (IF name = "fetch_commits" THEN {}
               ELSE {UpstreamFailed(<<"item">>, "Bad credentials")})

InitExec ==
    /\ mode = "executor"
    /\ config = SingleRepoConfig
    /\ ctx \in ExecContexts
    /\ \E call \in ExecCalls : toolUses = WithIds(<<call>>, 1)
    /\ pc = "calling"
    /\ messages = <<>>
    /\ linesRead = 0
    /\ userInput = ""
    /\ iteration = 0
    /\ inferenceCalls = 0
    /\ exec = <<>>
    /\ completed = <<>>
    /\ lastTurn = NoTurn
    /\ netLog = {}
    /\ console = <<>>
    /\ CliIdle

\* the callback of toolUses.map runs up to the await inside executeTool, or to
\* its end when executeTool returns or throws before any await
ExecuteToolCalled ==
    /\ pc = "calling"
    /\ LET started == StartToolUse(toolUses[1], ctx) IN
       /\ exec' = <<started>>
       /\ completed' = IF started.settled THEN <<1>> ELSE <<>>
       /\ netLog' = IF started.settled THEN netLog
                    ELSE netLog \cup {[id |-> toolUses[1].id, api |-> started.api]}
       /\ console' = console \o ToolErrorLines(<<started>>, completed')
       /\ pc' = IF started.settled THEN "returned" ELSE "suspended"
    /\ UNCHANGED cliVars
    /\ UNCHANGED <<mode, config, ctx, userInput, linesRead, iteration, messages, toolUses,
                   lastTurn, inferenceCalls>>

\* the upstream call returns or throws and the callback runs to its end
ExecuteToolSettles ==
    /\ pc = "suspended"
    /\ \E outcome \in ExecOutcomes(toolUses[1].name) :
          exec' = <<ResumeToolUse(toolUses[1], ctx, exec[1].api, outcome)>>
    /\ completed' = <<1>>
    /\ console' = console \o ToolErrorLines(exec', <<1>>)
    /\ pc' = "returned"
    /\ UNCHANGED cliVars
    /\ UNCHANGED <<mode, config, ctx, userInput, linesRead, iteration, messages, toolUses,
                   lastTurn, inferenceCalls, netLog>>

NextExec == ExecuteToolCalled \/ ExecuteToolSettles

SpecExec == InitExec /\ [][NextExec]_vars

\* ------------------------------------------------------------------------
\* formatGitHubError on its own, for the values a catch clause may receive
\* ------------------------------------------------------------------------

\* what no command other than the agent session touches
sessionVars == <<ctx, linesRead, userInput, iteration, messages, toolUses, exec, completed,
                 lastTurn>>

\* no agent session is running
SessionIdle ==
    /\ ctx = buildToolContext(config)
    /\ linesRead = 0
    /\ userInput = ""
    /\ iteration = 0
    /\ messages = <<>>
    /\ toolUses = <<>>
    /\ exec = <<>>
    /\ completed = <<>>
    /\ lastTurn = NoTurn

ThrownValues ==
    { ErrorObject(msg) : msg \in GitHubMessages \cup {"", NotAString} }
        \cup { NonError("string", "Not Found"), NonError("string", "socket hang up"),
               NonError("number", "404"), NonError("null", ""), NonError("undefined", ""),
               NonError("object", ""), NonError("bare object", "") }

InitFormat ==
    /\ mode = "format"
    /\ config = SingleRepoConfig
    /\ SessionIdle
    /\ pc = "caught"
    /\ inferenceCalls = 0
    /\ netLog = {}
    /\ console = <<>>
    /\ args = <<>>
    /\ standupNotes = <<>>
    /\ nextMember = 0
    /\ activity = <<>>
    /\ thrown \in ThrownValues
    /\ formatted = <<>>
    /\ envFile = EnvOf(config)
    /\ cronTask = NoTask

\* the catch clause calls formatGitHubError(error)
FormatGitHubErrorCalled ==
    /\ pc = "caught"
    /\ formatted' = formatGitHubError(thrown)
    /\ pc' = "formatted"
    /\ UNCHANGED <<mode, config, sessionVars, inferenceCalls, netLog, console, args,
                   standupNotes, nextMember, activity, thrown, envFile, cronTask>>

NextFormat == FormatGitHubErrorCalled

SpecFormat == InitFormat /\ [][NextFormat]_vars

\* ------------------------------------------------------------------------
\* loop.ts: the catch of runAgentTurn on its own, for the values
\* anthropic.messages.create may throw
\* ------------------------------------------------------------------------

\* Error objects, and values that are not Errors and that String() converts
ApiThrownValues ==
    { ErrorObject(msg) : msg \in ApiMessages \cup {"", "Connection error."} }
        \cup { NonError("string", "rate 401"), NonError("string", "socket hang up"),
               NonError("number", "529"), NonError("null", ""), NonError("undefined", ""),
               NonError("object", "") }

\* error instanceof Error ? error.message : String(error)
MessageText(error) == IF error.isError THEN Returned(error.message) ELSE StringOf(error)

\* a session whose inference call is about to fail: the first call of an
\* autonomous run, or the first call for the first line of an interactive one
InitClassify ==
    /\ mode \in {"autonomous", "interactive"}
    /\ config = SingleRepoConfig
    /\ ctx = buildToolContext(config)
    /\ messages = IF mode = "autonomous" THEN <<TaskPrompt>>
                  ELSE <<Message("user", <<Text("what did Bob do?")>>)>>
    /\ linesRead = IF mode = "autonomous" THEN 0 ELSE 1
    /\ userInput = IF mode = "autonomous" THEN "" ELSE "what did Bob do?"
    /\ iteration = 1
    /\ inferenceCalls = 1
    /\ pc = "awaiting"
    /\ toolUses = <<>>
    /\ exec = <<>>
    /\ completed = <<>>
    /\ lastTurn = NoTurn
    /\ netLog = {}
    /\ console = IF mode = "autonomous" THEN <<>> ELSE <<"github_verified">>
    /\ args = <<>>
    /\ standupNotes = <<>>
    /\ nextMember = 0
    /\ activity = <<>>
    /\ thrown \in ApiThrownValues
    /\ formatted = <<>>
    /\ envFile = EnvOf(config)
    /\ cronTask = NoTask

\* anthropic.messages.create throws the value: the catch logs the classified
\* line and runAgentTurn returns
InferenceFailsWith ==
    /\ pc = "awaiting"
    /\ LET msg == MessageText(thrown).value IN
       LoopAfterTurn(DoneOnApiError(msg), "api_error", <<ClassifyApiError(msg)>>)
    /\ UNCHANGED cliVars
    /\ UNCHANGED <<mode, config, ctx, userInput, linesRead, messages, toolUses, exec, completed, netLog>>

NextClassify == InferenceFailsWith

SpecClassify == InitClassify /\ [][NextClassify]_vars

\* ------------------------------------------------------------------------
\* setup.ts: updateConfig, the update command of cli.ts
\* ------------------------------------------------------------------------

\* the value of the command is modelled as its sequence of characters

RECURSIVE Concat(_)
\* the string a sequence of characters spells
Concat(chars) == IF chars = <<>> THEN "" ELSE Head(chars) \o Concat(Tail(chars))

RECURSIVE Split(_, _)
\* String.prototype.split with a separator of one character
Split(chars, sep) ==
    IF \A i \in 1..Len(chars) : chars[i] # sep THEN <<chars>>
    ELSE LET at == CHOOSE i \in 1..Len(chars) :
                      chars[i] = sep /\ \A j \in 1..(i - 1) : chars[j] # sep
         IN <<SubSeq(chars, 1, at - 1)>> \o Split(SubSeq(chars, at + 1, Len(chars)), sep)

RECURSIVE Trimmed(_)
\* String.prototype.trim
Trimmed(chars) ==
    IF chars = <<>> THEN chars
    ELSE IF Head(chars) = " " THEN Trimmed(Tail(chars))
    ELSE IF chars[Len(chars)] = " " THEN Trimmed(SubSeq(chars, 1, Len(chars) - 1))
    ELSE chars

\* value.split(",").map((r) => r.trim()).filter(Boolean)
TrimmedEntries(chars) ==
    LET entries == Split(chars, ",")
        NonEmpty(e) == e # <<>>
    IN SelectSeq([i \in 1..Len(entries) |-> Trimmed(entries[i])], NonEmpty)

\* parts.length !== 2 || !parts[0] || !parts[1]
InvalidRepoFormat(entry) ==
    LET parts == Split(entry, "/") IN
    Len(parts) # 2 \/ parts[1] = <<>> \/ parts[2] = <<>>

\* parsed.push({ owner: parts[0], repo: parts[1] })
ParsedRepo(entry) ==
    LET parts == Split(entry, "/") IN Repo(Concat(parts[1]), Concat(parts[2]))

\* an update that stores the list and leaves the primary repository alone
UpdateReposKeepingPrimary(cfg, parsed) ==
    [cfg EXCEPT !.hasGithubRepos = TRUE, !.github_repos = parsed]

\* config.github_repos = parsed; github_owner and github_repo from parsed[0]
UpdateRepos(cfg, parsed) ==
    [cfg EXCEPT !.hasGithubRepos = TRUE, !.github_repos = parsed,
                !.github_owner = parsed[1].owner, !.github_repo = parsed[1].repo]

\* ~/.standup-cli/config.json does not exist
NoConfigFile == [exists |-> FALSE]

\* ~/.standup-cli/.env does not exist
NoEnvFile == [exists |-> FALSE]

Digits == <<"0", "1", "2", "3", "4", "5", "6", "7", "8", "9">>

IsDigit(c) == \E d \in 1..10 : Digits[d] = c

DigitValue(c) == (CHOOSE d \in 1..10 : Digits[d] = c) - 1

RECURSIVE LeadingDigits(_)
\* the longest prefix made of digits
LeadingDigits(chars) ==
    IF chars = <<>> \/ ~IsDigit(Head(chars)) THEN <<>>
    ELSE <<Head(chars)>> \o LeadingDigits(Tail(chars))

RECURSIVE DecimalValue(_)
\* the number a sequence of digits writes
DecimalValue(ds) ==
    IF ds = <<>> THEN 0
    ELSE 10 * DecimalValue(SubSeq(ds, 1, Len(ds) - 1)) + DigitValue(ds[Len(ds)])

RECURSIVE SkipBlanks(_)
SkipBlanks(chars) ==
    IF chars # <<>> /\ Head(chars) = " " THEN SkipBlanks(Tail(chars)) ELSE chars

\* parseInt(value, 10): leading blanks are skipped, a sign is read, then the
\* longest run of digits; what follows the digits is ignored, and the result
\* is NaN when there is no digit
parseInt(chars) ==
    LET s == SkipBlanks(chars)
        negative == s # <<>> /\ Head(s) = "-"
        unsigned == IF s # <<>> /\ Head(s) \in {"+", "-"} THEN Tail(s) ELSE s
        ds == LeadingDigits(unsigned)
    IN IF ds = <<>> THEN [isNaN |-> TRUE, number |-> 0]
       ELSE [isNaN |-> FALSE,
             number |-> IF negative THEN 0 - DecimalValue(ds) ELSE DecimalValue(ds)]

\* the entries a value is written with
UpdateEntries == {
    <<"o", "/", "r">>, <<"p", "/", "q">>, <<" ", "o", "/", "r", " ">>,
    <<>>, <<" ">>, <<"o">>, <<"o", "/">>, <<"o", "/", "r", "/", "q">> }

\* most entries of a value
MaxEntries == 2

RECURSIVE JoinChars(_, _)
\* the entries written one after another with the separator between them
JoinChars(entries, sep) ==
    IF entries = <<>> THEN <<>>
    ELSE IF Len(entries) = 1 THEN entries[1]
    ELSE entries[1] \o <<sep>> \o JoinChars(Tail(entries), sep)

UpdateEntryLists == UNION { [1..n -> UpdateEntries] : n \in 0..MaxEntries }

\* values written as a number of hours, or nearly
LookbackValues == {
    <<"4", "8">>, <<"0">>, <<"-", "3">>, <<"4", "8", "h">>, <<"h", "4", "8">>,
    <<"1", ".", "5">>, <<" ", "7">> }

\* args.slice(2).join(" ")
UpdateValues == { JoinChars(es, ",") : es \in UpdateEntryLists } \cup LookbackValues

\* the fields of the update command that are stored as they are typed
PlainFields == {"slack-channel", "slack-token", "github-token", "anthropic-key", "schedule"}

\* the fields of the update command, and one that is not a field
UpdateFields ==
    {"repos", "team-members", "lookback-hours", "timezone", "colour"} \cup PlainFields

InitUpdate ==
    /\ mode = "update"
    /\ config \in Configs \cup {NoConfigFile}
    /\ ctx = <<>>
    /\ linesRead = 0
    /\ userInput = ""
    /\ iteration = 0
    /\ messages = <<>>
    /\ toolUses = <<>>
    /\ exec = <<>>
    /\ completed = <<>>
    /\ lastTurn = NoTurn
    /\ pc = "update"
    /\ inferenceCalls = 0
    /\ netLog = {}
    /\ console = <<>>
    /\ \E field \in UpdateFields, value \in UpdateValues : args = <<field, value>>
    /\ standupNotes = <<>>
    /\ nextMember = 0
    /\ activity = <<>>
    /\ thrown = <<>>
    /\ formatted = <<>>
    /\ envFile = IF config = NoConfigFile THEN NoEnvFile ELSE EnvOf(config)
    /\ cronTask = NoTask

\* the cases of updateConfig that assign the value as it is
UpdatePlain(cfg, field, text) ==
    CASE field = "slack-channel" -> [cfg EXCEPT !.slack_channel_id = text]
      [] field = "slack-token"   -> [cfg EXCEPT !.slack_user_token = text]
      [] field = "github-token"  -> [cfg EXCEPT !.github_token = text]
      [] field = "anthropic-key" -> [cfg EXCEPT !.anthropic_api_key = text]
      [] field = "schedule"      -> [cfg EXCEPT !.schedule = text]

\* updateConfig(field, value): process.exit(1), or writeConfig(config), which
\* writes config.json and .env
UpdateConfig ==
    /\ pc = "update"
    /\ LET field == args[1]
           value == args[2]
           entries == TrimmedEntries(value)
           hours == parseInt(value)
           Exit(line) == /\ pc' = "exited"
                         /\ console' = Append(console, line)
                         /\ UNCHANGED <<config, envFile>>
           Write(cfg) == /\ pc' = "written"
                         /\ console' = Append(console, "updated " \o field)
                         /\ config' = cfg
                         /\ envFile' = EnvOf(cfg)
       IN
       IF value = <<>> THEN Exit("value_required")
       ELSE IF config = NoConfigFile THEN Exit("config_not_found")
       ELSE IF field = "team-members"
       THEN IF entries = <<>> THEN Exit("no_team_member")
            ELSE Write([config EXCEPT
                          !.team_members = [i \in 1..Len(entries) |-> Concat(entries[i])]])
       ELSE IF field = "repos"
       THEN IF \E i \in 1..Len(entries) : InvalidRepoFormat(entries[i])
            THEN LET first == CHOOSE i \in 1..Len(entries) :
                                 /\ InvalidRepoFormat(entries[i])
                                 /\ \A j \in 1..(i - 1) : ~InvalidRepoFormat(entries[j])
                 IN Exit("invalid_repo_format: " \o Concat(entries[first]))
            ELSE IF entries = <<>> THEN Exit("no_repository")
            ELSE Write(UpdateRepos(config, [i \in 1..Len(entries) |-> ParsedRepo(entries[i])]))
       ELSE IF field \in PlainFields THEN Write(UpdatePlain(config, field, Concat(value)))
       ELSE IF field = "lookback-hours"
       THEN IF hours.isNaN \/ hours.number <= 0 THEN Exit("lookback_not_positive")
            ELSE Write([config EXCEPT !.lookback_hours = hours.number])
       ELSE IF field = "timezone"
       THEN Write([config EXCEPT !.timezone = Concat(value),
                                 !.timezoneValid = IsTimeZone(Concat(value))])
       ELSE Exit("unknown_field: " \o field)
    /\ UNCHANGED <<mode, sessionVars, inferenceCalls, netLog, args, standupNotes, nextMember,
                   activity, thrown, formatted, cronTask>>

NextUpdate == UpdateConfig

SpecUpdate == InitUpdate /\ [][NextUpdate]_vars

\* ------------------------------------------------------------------------
\* cli.ts: runStandupJob, the run command (pipeline mode)
\* ------------------------------------------------------------------------

\* team_members and timezone of the configurations a run may load
PipelineConfigs ==
    { [SingleRepoConfig EXCEPT !.team_members = team, !.timezoneValid = tz,
                               !.timezone = IF tz THEN "Asia/Kolkata" ELSE "Asia/Kolkatta"] :
        team \in { <<>>, <<"alice">>, <<"alice", "Bob">>, <<"carol", "alice", "Bob">> },
        tz \in BOOLEAN }

\* what Promise.all resolves to: the fetchers catch their errors, so each
\* gives a list, empty or not
Activities ==
    [commits : {<<>>, <<"item">>}, prs : {<<>>, <<"item">>}, issueActivity : {<<>>, <<"item">>}]

NoActivity == [commits |-> <<>>, prs |-> <<>>, issueActivity |-> <<>>]

\* a StandupNote, reduced to its username and to the branch that built it
StandupNote(username, rawSummary) == [username |-> username, rawSummary |-> rawSummary]

\* summarize.ts: generateStandupNote up to its await; hasActivity is false
NoActivityNote(username) == StandupNote(username, "No activity")

\* summarize.ts: generateStandupNote after client.messages.create settled:
\* the parsed response, or the fallback of the catch when the call threw or
\* JSON.parse failed
generateStandupNote(username, outcome) ==
    IF outcome = "json" THEN StandupNote(username, "responseText")
    ELSE StandupNote(username, "AI summarization failed")

\* how client.messages.create ends: a JSON answer, an answer that does not
\* parse, an exception
SummaryOutcomes == {"json", "not json", "throws"}

\* standupNotes.push(note)
PushNote(list, note) == Append(list, note)

InitPipeline ==
    /\ mode = "pipeline"
    /\ config \in PipelineConfigs
    /\ ctx = <<>>
    /\ linesRead = 0
    /\ userInput = ""
    /\ iteration = 0
    /\ messages = <<>>
    /\ toolUses = <<>>
    /\ exec = <<>>
    /\ completed = <<>>
    /\ lastTurn = NoTurn
    /\ pc = "run"
    /\ inferenceCalls = 0
    /\ netLog = {}
    /\ console = <<>>
    /\ args = <<"run">>
    /\ standupNotes = <<>>
    /\ nextMember = 0
    /\ activity = NoActivity
    /\ thrown = <<>>
    /\ formatted = <<>>
    /\ envFile = EnvOf(config)
    /\ cronTask = NoTask

\* the for-of loop moves on: the three fetchers are called for the member at
\* position k, or, past the last member, postStandupToSlack is called
HandleMember(k, notes) ==
    IF k <= Len(config.team_members)
    THEN /\ nextMember' = k
         /\ pc' = "fetching"
         /\ console' = Append(console, "fetching " \o config.team_members[k])
         /\ UNCHANGED netLog
    ELSE /\ nextMember' = k
         /\ pc' = "posting"
         /\ console' = Append(console, "posting")
         /\ netLog' = netLog \cup {[id |-> NoId, api |-> "slack", notes |-> notes]}

\* runStandupJob up to its first await; toLocaleDateString throws RangeError
\* for a timezone that is not valid and main's catch exits
JobStarts ==
    /\ pc = "run"
    /\ IF ~config.timezoneValid
       THEN /\ pc' = "fatal"
            /\ console' = Append(console, "fatal: " \o RangeErrorText)
            /\ UNCHANGED <<nextMember, netLog>>
       ELSE HandleMember(1, standupNotes)
    /\ UNCHANGED <<mode, config, sessionVars, inferenceCalls, args, standupNotes, activity,
                   thrown, formatted, envFile, cronTask>>

\* Promise.all of the three fetchers resolves; generateStandupNote returns at
\* once when there is no activity and calls the model otherwise
ActivityFetched ==
    /\ pc = "fetching"
    /\ \E fetched \in Activities :
          IF fetched = NoActivity
          THEN /\ standupNotes' =
                     PushNote(standupNotes, NoActivityNote(config.team_members[nextMember]))
               /\ HandleMember(nextMember + 1, standupNotes')
               /\ UNCHANGED <<activity, inferenceCalls>>
          ELSE /\ activity' = fetched
               /\ pc' = "summarizing"
               /\ inferenceCalls' = inferenceCalls + 1
               /\ UNCHANGED <<standupNotes, nextMember, netLog, console>>
    /\ UNCHANGED <<mode, config, sessionVars, args, thrown, formatted, envFile, cronTask>>

\* client.messages.create settles and generateStandupNote returns its note
NoteGenerated ==
    /\ pc = "summarizing"
    /\ \E outcome \in SummaryOutcomes :
          /\ standupNotes' =
                PushNote(standupNotes,
                         generateStandupNote(config.team_members[nextMember], outcome))
          /\ HandleMember(nextMember + 1, standupNotes')
    /\ activity' = NoActivity
    /\ UNCHANGED <<mode, config, sessionVars, inferenceCalls, args, thrown, formatted, envFile, cronTask>>

\* postStandupToSlack returns, or throws and main's catch exits
StandupPosted ==
    /\ pc = "posting"
    /\ \E outcome \in UpstreamOutcomes("slack") :
          LET posted == postStandupToSlack(outcome) IN
          IF posted.threw
          THEN /\ pc' = "fatal"
               /\ console' = Append(console, "fatal: " \o MessageOf(posted.value))
          ELSE /\ pc' = "done"
               /\ console' = Append(console, "done")
    /\ UNCHANGED <<mode, config, sessionVars, inferenceCalls, netLog, args, standupNotes,
                   nextMember, activity, thrown, formatted, envFile, cronTask>>

NextPipeline == JobStarts \/ ActivityFetched \/ NoteGenerated \/ StandupPosted

SpecPipeline == InitPipeline /\ [][NextPipeline]_vars

\* ------------------------------------------------------------------------
\* scheduler/cron.ts: startScheduler, the schedule command of cli.ts
\* ------------------------------------------------------------------------

\* the configurations a schedule may be started with: the timezone is stored
\* as it was typed
ScheduleConfigs ==
    { SingleRepoConfig,
      [SingleRepoConfig EXCEPT !.timezone = "Asia/Kolkatta", !.timezoneValid = FALSE] }

\* one call of the job: cronTask.runs[i] is the promise of the i-th tick
Running == [phase |-> "running", error |-> ""]

\* how a call of the job ends: runStandupJob throws RangeError for a timezone
\* that is not valid, throws what postStandupToSlack threw, or returns
JobOutcomes(cfg) ==
    IF ~cfg.timezoneValid THEN {Threw(ErrorObject(RangeErrorText))}
    ELSE { postStandupToSlack(outcome) : outcome \in UpstreamOutcomes("slack") }

\* startScheduler after cron.schedule returned: the task is scheduled.
\* zoneChecked tells the two ways a cron library may treat the timezone
\* option: it converts the time of every tick with it, or it does not
InitSchedule ==
    /\ mode = "schedule"
    /\ config \in ScheduleConfigs
    /\ ctx = <<>>
    /\ linesRead = 0
    /\ userInput = ""
    /\ iteration = 0
    /\ messages = <<>>
    /\ toolUses = <<>>
    /\ exec = <<>>
    /\ completed = <<>>
    /\ lastTurn = NoTurn
    /\ pc = "scheduled"
    /\ inferenceCalls = 0
    /\ netLog = {}
    /\ console = <<"scheduler_started">>
    /\ args = <<"schedule">>
    /\ standupNotes = <<>>
    /\ nextMember = 0
    /\ activity = NoActivity
    /\ thrown = <<>>
    /\ formatted = <<>>
    /\ envFile = EnvOf(config)
    /\ \E checked \in BOOLEAN : cronTask = [zoneChecked |-> checked, runs |-> <<>>]

\* the time of the schedule comes: the callback logs its line and calls the
\* job. A library that converts the tick with a timezone that is not valid
\* throws before it calls the callback, and nothing catches that
Tick ==
    /\ pc = "scheduled"
    /\ Len(cronTask.runs) < MaxTicks
    /\ IF cronTask.zoneChecked /\ ~config.timezoneValid
       THEN /\ pc' = "crashed"
            /\ console' = Append(console, "uncaught: " \o RangeErrorText)
            /\ UNCHANGED cronTask
       ELSE /\ cronTask' = [cronTask EXCEPT !.runs = Append(@, Running)]
            /\ console' = Append(console, "running_scheduled")
            /\ UNCHANGED pc
    /\ UNCHANGED <<mode, config, sessionVars, inferenceCalls, netLog, args, standupNotes,
                   nextMember, activity, thrown, formatted, envFile>>

\* a callback without the try: the rejection of the job is not handled and
\* ends the process
JobSettlesUncaught ==
    /\ pc = "scheduled"
    /\ \E i \in 1..Len(cronTask.runs) :
          /\ cronTask.runs[i].phase = "running"
          /\ \E outcome \in JobOutcomes(config) :
                IF outcome.threw
                THEN /\ cronTask' = [cronTask EXCEPT !.runs[i] =
                            [phase |-> "failed", error |-> MessageOf(outcome.value)]]
                     /\ console' = Append(console, "uncaught: " \o MessageOf(outcome.value))
                     /\ pc' = "crashed"
                ELSE /\ cronTask' = [cronTask EXCEPT !.runs[i] = [phase |-> "done", error |-> ""]]
                     /\ console' = Append(console, "done")
                     /\ UNCHANGED pc
    /\ UNCHANGED <<mode, config, sessionVars, inferenceCalls, netLog, args, standupNotes,
                   nextMember, activity, thrown, formatted, envFile>>

\* await job() settles: the callback ends, or its catch logs the message
JobSettles ==
    /\ pc = "scheduled"
    /\ \E i \in 1..Len(cronTask.runs) :
          /\ cronTask.runs[i].phase = "running"
          /\ \E outcome \in JobOutcomes(config) :
                IF outcome.threw
                THEN /\ cronTask' = [cronTask EXCEPT !.runs[i] =
                            [phase |-> "failed", error |-> MessageOf(outcome.value)]]
                     /\ console' = Append(console,
                            "scheduled_job_failed: " \o MessageOf(outcome.value))
                ELSE /\ cronTask' = [cronTask EXCEPT !.runs[i] = [phase |-> "done", error |-> ""]]
                     /\ console' = Append(console, "done")
    /\ UNCHANGED <<mode, config, sessionVars, pc, inferenceCalls, netLog, args, standupNotes,
                   nextMember, activity, thrown, formatted, envFile>>

NextSchedule == Tick \/ JobSettles

SpecSchedule == InitSchedule /\ [][NextSchedule]_vars

\* ------------------------------------------------------------------------
\* Fairness: every inference call and every upstream call comes back
\* ------------------------------------------------------------------------

FairAutonomous ==
    /\ InitAutonomous
    /\ [][NextAutonomous]_vars
    /\ WF_vars(InferenceFails \/ InferenceReturns)
    /\ WF_vars(ToolSettles)

\* ------------------------------------------------------------------------
\* Properties
\* ------------------------------------------------------------------------

ToolUsesOf(message) == SelectSeq(message.content, IsToolUse)

IsToolResult(block) == block.type = "tool_result"

HoldsToolResults(message) ==
    message.role = "user" /\ \E j \in 1..Len(message.content) : IsToolResult(message.content[j])

\* the (owner, repo) pair is an entry of the repo allow-list, case-insensitively
ListedRepo(owner, repo) ==
    <<toLowerCase(owner), toLowerCase(repo)>> \in
        { <<toLowerCase(ctx.allowedRepos[i].owner), toLowerCase(ctx.allowedRepos[i].repo)>> :
            i \in 1..Len(ctx.allowedRepos) }

ListedMember(username) ==
    toLowerCase(username) \in
        { toLowerCase(ctx.allowedMembers[i]) : i \in 1..Len(ctx.allowedMembers) }

NoUpstreamCallFor(id) == \A n \in netLog : n.id # id

\* C1: an assistant entry with N >= 1 tool_use blocks is followed, once its
\* turn is over, by exactly one user entry holding N tool_result blocks, the
\* i-th carrying the id of the i-th tool_use block, in whatever order the
\* executions settled.
C1_ResultsAnswerCallsInOrder ==
    \A k \in 1..Len(messages) :
        LET uses == ToolUsesOf(messages[k]) IN
        (messages[k].role = "assistant" /\ uses # <<>>) =>
            IF k = Len(messages) THEN pc = "executing"
            ELSE /\ messages[k + 1].role = "user"
                 /\ Len(messages[k + 1].content) = Len(uses)
                 /\ \A i \in 1..Len(uses) :
                       /\ IsToolResult(messages[k + 1].content[i])
                       /\ messages[k + 1].content[i].tool_use_id = uses[i].id
                 /\ k + 2 <= Len(messages) => ~HoldsToolResults(messages[k + 2])

\* two executions settled in the reverse of their call order and were joined
C1_Witness ==
    /\ pc # "executing"
    /\ completed = <<2, 1>>
    /\ HoldsToolResults(messages[Len(messages)])
    /\ Len(messages[Len(messages)].content) = 2

\* C2: a read tool call for an (owner, repo) pair outside the configured repo
\* allow-list issues no data-source call and its result is an {error} payload:
\* the access denial naming the pair and the list when owner and repo are
\* strings.
C2_UnlistedRepoIsDeniedWithoutFetch ==
    \A i \in 1..Len(exec) :
        LET use == toolUses[i]
            owner == use.input.owner
            repo == use.input.repo
        IN
        (use.name \in ReadTools /\ ctx.hasAllowedRepos /\ ~ListedRepo(owner, repo)) =>
            /\ exec[i].settled
            /\ exec[i].api = "none"
            /\ NoUpstreamCallFor(use.id)
            /\ exec[i].result.content.kind = "error"
            /\ (owner # UNDEFINED /\ repo # UNDEFINED) =>
                  /\ ~exec[i].result.is_error
                  /\ exec[i].result.content.body =
                        << "Access denied: repository \"" \o owner \o "/" \o repo
                           \o "\" is not in the configured list. Allowed repos: "
                           \o Join(RepoNames(ctx.allowedRepos), ", ") >>

\* the owner of one entry with the repo of another was denied
C2_Witness ==
    /\ pc = "returned"
    /\ toolUses[1].name = "fetch_pull_requests"
    /\ toolUses[1].input.owner = "acme"
    /\ toolUses[1].input.repo = "infra"
    /\ Len(ctx.allowedRepos) = 2
    /\ exec[1].result.content.kind = "error"
    /\ netLog = {}

\* C3: with a member allow-list, a read tool call for a username outside it
\* gets an {error} result and issues no data-source call, and a posting call
\* with at least one username outside it gets an {error} result and issues no
\* posting call at all.
C3_UnlistedMemberIsRejectedWithoutCall ==
    \A i \in 1..Len(exec) :
        LET use == toolUses[i] IN
        /\ (use.name \in ReadTools /\ ctx.hasAllowedMembers /\ ~ListedMember(use.input.username)) =>
              /\ exec[i].settled
              /\ exec[i].api = "none"
              /\ NoUpstreamCallFor(use.id)
              /\ exec[i].result.content.kind = "error"
        /\ (/\ use.name = PostTool
            /\ ctx.hasAllowedMembers
            /\ \E j \in 1..Len(use.input.notes) : ~ListedMember(use.input.notes[j])) =>
              /\ exec[i].settled
              /\ exec[i].api = "none"
              /\ NoUpstreamCallFor(use.id)
              /\ exec[i].result.content.kind = "error"

\* a standup with one allowed and one foreign username was rejected unsent
C3_Witness ==
    /\ pc = "returned"
    /\ toolUses[1].name = PostTool
    /\ toolUses[1].input.notes = <<"alice", "carol">>
    /\ ctx.allowedMembers = <<"alice", "Bob">>
    /\ ctx.timezoneValid
    /\ exec[1].result.content.kind = "error"
    /\ netLog = {}

\* C4: a response without tool_use blocks ends the task with that turn: no
\* tool runs, the turn returns done, an autonomous run stops with as many
\* inference calls as turns, and an interactive sub-loop goes back to reading,
\* so that the entry is last or followed by the next input line.
C4_ResponseWithoutToolUseEndsTask ==
    \A k \in 1..Len(messages) :
        (messages[k].role = "assistant" /\ ToolUsesOf(messages[k]) = <<>>) =>
            IF k = Len(messages)
            THEN /\ lastTurn.done
                 /\ lastTurn.why = "no_tool_use"
                 /\ lastTurn.call = inferenceCalls
                 /\ exec = <<>>
                 /\ pc \in {"stopped", "reading"}
                 /\ mode = "autonomous" =>
                       /\ pc = "stopped"
                       /\ inferenceCalls = lastTurn.turn
                       /\ console[Len(console)] = "finished"
            ELSE /\ mode = "interactive"
                 /\ messages[k + 1].role = "user"
                 /\ ~HoldsToolResults(messages[k + 1])

\* the third turn of an autonomous run brought no tool call
C4_Witness ==
    /\ mode = "autonomous"
    /\ pc = "stopped"
    /\ lastTurn.why = "no_tool_use"
    /\ inferenceCalls = 3
    /\ Len(messages) = 6

\* no inference failure so far and every response held a tool call
C5_EveryTurnCalledTools ==
    /\ \A j \in 1..Len(console) : console[j] \in {"tool_error", "max_iterations"}
    /\ \A k \in 1..Len(messages) :
          messages[k].role = "assistant" => ToolUsesOf(messages[k]) # <<>>

C5_ExhaustedAtCap ==
    /\ inferenceCalls <= MAX_ITERATIONS
    /\ (pc = "stopped" /\ C5_EveryTurnCalledTools) =>
          /\ inferenceCalls = MAX_ITERATIONS
          /\ console[Len(console)] = "max_iterations"
    /\ (console # <<>> /\ console[Len(console)] = "max_iterations") =>
          /\ pc = "stopped"
          /\ inferenceCalls = MAX_ITERATIONS
          /\ \A j \in 1..Len(console) : console[j] \in {"tool_error", "max_iterations"}

\* C5: an autonomous run never makes more than 20 inference calls; when every
\* response held a tool call it stops after exactly 20 of them with the
\* max-iterations warning and no error line; and when every inference and
\* upstream call comes back the run stops.
C5_AutonomousRunIsBounded == []C5_ExhaustedAtCap /\ <>(pc = "stopped")

\* the run stopped at the cap
C5_Witness ==
    /\ pc = "stopped"
    /\ inferenceCalls = MAX_ITERATIONS
    /\ console[Len(console)] = "max_iterations"
    /\ Len(messages) = 1 + 2 * MAX_ITERATIONS

\* C6: a failed inference call makes its turn return done without a retry:
\* while the task of that turn is the current one, no further inference call
\* has been issued, no tool of that call has run, nothing was appended, and the
\* loop has been left.
C6_FailedInferenceEndsTask ==
    (lastTurn.why = "api_error" /\ lastTurn.line = linesRead) =>
        /\ lastTurn.done
        /\ inferenceCalls = lastTurn.call
        /\ pc \in {"stopped", "reading"}
        /\ \A n \in netLog : n.id[1] # lastTurn.call
        /\ messages[Len(messages)].role = "user"
        /\ mode = "autonomous" => pc = "stopped"

\* the inference call of the last turn of an interactive line failed
C6_Witness ==
    /\ mode = "interactive"
    /\ lastTurn.why = "api_error"
    /\ lastTurn.turn = MAX_ITERATIONS
    /\ pc = "reading"
    /\ HoldsToolResults(messages[Len(messages)])

\* the tool call cannot succeed, whatever the upstream services do
C7_MustFail(use) ==
    \/ use.name \notin ToolNames
    \/ /\ use.name = PostTool
       /\ \/ ~use.input.hasNotes
          \/ use.input.notes = <<>>
          \/ \E j \in 1..Len(use.input.notes) : ~ListedMember(use.input.notes[j])
    \/ /\ use.name \in ReadTools
       /\ \/ ~ListedRepo(use.input.owner, use.input.repo)
          \/ ~ListedMember(use.input.username)

\* C7: a tool call that is denied, invalid, unknown or raises still gets its
\* tool_result, an {error} payload, next to the results of all other calls of
\* the turn, and the turn returns continue.
C7_FailedToolKeepsTurnGoing ==
    /\ \A k \in 1..(Len(messages) - 1) :
          LET uses == ToolUsesOf(messages[k])
              results == messages[k + 1].content
          IN
          (messages[k].role = "assistant" /\ uses # <<>>) =>
              /\ Len(results) = Len(uses)
              /\ \A i \in 1..Len(uses) :
                    (C7_MustFail(uses[i]) \/ results[i].is_error) =>
                        results[i].content.kind = "error"
    /\ lastTurn.why = "tool_results" => ~lastTurn.done
    /\ (/\ pc # "executing"
        /\ messages # <<>>
        /\ HoldsToolResults(messages[Len(messages)])
        /\ messages[Len(messages)].content[1].tool_use_id[1] = lastTurn.call) =>
          /\ lastTurn.why = "tool_results"
          /\ messages[Len(messages)].content = [i \in 1..Len(exec) |-> exec[i].result]
          /\ \A i \in 1..Len(exec) : exec[i].threw => exec[i].result.content.kind = "error"

\* one call raised, the other call of the turn succeeded, both were answered
C7_Witness ==
    /\ pc # "executing"
    /\ messages # <<>>
    /\ HoldsToolResults(messages[Len(messages)])
    /\ Len(messages[Len(messages)].content) = 2
    /\ Len(exec) = 2
    /\ exec[1].threw
    /\ exec[2].result.content.kind = "list"
    /\ messages[Len(messages)].content[1].content.kind = "error"
    /\ messages[Len(messages)].content[2].content.kind = "list"
    /\ ~lastTurn.done

\* C8: when the data-source call of a read tool fails, the tool's result is an
\* {error} payload.
C8_FailedFetchIsReportedAsError ==
    \A i \in 1..Len(exec) :
        (exec[i].settled /\ exec[i].api = "github" /\ exec[i].upstream = "failed") =>
            exec[i].result.content.kind = "error"

\* C9 as claimed: is_error is set exactly when the upstream call failed
C9_FlagMarksUpstreamFailure ==
    \A i \in 1..Len(exec) :
        exec[i].settled => (exec[i].result.is_error <=> exec[i].upstream = "failed")

\* C9: a tool_result carries is_error exactly when executeTool raised; what
\* executeTool returns carries none: the {error} payloads of validation (a
\* denial, an empty standup, an unknown tool), the result after an upstream
\* call that returned or failed, and every success.
C9_FlagMarksRaisedException ==
    /\ \A i \in 1..Len(exec) :
          exec[i].settled =>
              /\ exec[i].result.is_error <=> exec[i].threw
              /\ exec[i].upstream # "none" => ~exec[i].result.is_error
              /\ exec[i].result.content.kind # "error" => ~exec[i].result.is_error
              /\ toolUses[i].name \notin ToolNames => ~exec[i].result.is_error
    /\ \A k \in 1..Len(messages) :
          HoldsToolResults(messages[k]) =>
              \A i \in 1..Len(messages[k].content) :
                  messages[k].content[i].is_error <=>
                      messages[k].content[i].content = ErrorPayload(TypeErrorText)

\* one call raised and is flagged, another failed upstream and is not
C9_Witness ==
    /\ pc # "executing"
    /\ messages # <<>>
    /\ HoldsToolResults(messages[Len(messages)])
    /\ Len(messages[Len(messages)].content) = Len(exec)
    /\ \E i, j \in 1..Len(exec) :
          /\ exec[i].threw
          /\ messages[Len(messages)].content[i].is_error
          /\ exec[j].upstream = "failed"
          /\ messages[Len(messages)].content[j] = exec[j].result
          /\ ~messages[Len(messages)].content[j].is_error

\* C10: while an inference call is in flight no tool execution is pending:
\* every execution of the turn before has settled, and every upstream call
\* ever issued has its result in the history.
C10_TurnsAreSequential ==
    pc = "awaiting" =>
        /\ \A i \in 1..Len(exec) : exec[i].settled
        /\ messages[Len(messages)].role = "user"
        /\ \A n \in netLog :
              \E k \in 1..Len(messages) :
                  /\ HoldsToolResults(messages[k])
                  /\ \E i \in 1..Len(messages[k].content) :
                        /\ messages[k].content[i].tool_use_id = n.id
                        /\ messages[k].content[i].content.kind # "pending"

\* the inference call after a turn whose tool awaited the data source
C10_Witness ==
    /\ pc = "awaiting"
    /\ iteration = MAX_ITERATIONS
    /\ HoldsToolResults(messages[Len(messages)])
    /\ \E n \in netLog : n.id = messages[Len(messages)].content[1].tool_use_id

\* the last line read was exit or quit in some letter case
ExitTyped == mode = "interactive" /\ toLowerCase(userInput) \in {"exit", "quit"}

C11_StoppedAtExit ==
    ExitTyped =>
        /\ pc = "stopped"
        /\ \A k \in 1..Len(messages) : messages[k] # Message("user", <<Text(userInput)>>)
        /\ \A i \in 1..Len(exec) : exec[i].settled
        /\ inferenceCalls = 0 \/ lastTurn.call = inferenceCalls

\* C11: in an interactive session a line that reads exit or quit in any letter
\* case ends the session: the line is not in the history, no inference call
\* or tool execution is in flight, and no step follows.
C11_ExitEndsSession == []C11_StoppedAtExit /\ [][~ExitTyped]_vars

\* "Exit" typed after a line that was served
C11_Witness ==
    /\ ExitTyped
    /\ userInput = "Exit"
    /\ linesRead = 2
    /\ Len(messages) >= 2
    /\ pc = "stopped"

\* the entry of the last input line in the history (0: no line was served)
LastLineIndex ==
    LET served == { k \in 1..Len(messages) :
                      messages[k].role = "user" /\ ~HoldsToolResults(messages[k]) }
    IN IF served = {} THEN 0 ELSE CHOOSE k \in served : \A j \in served : j <= k

\* inference calls that returned a response since the last input line
CallsAnswered ==
    Cardinality({ k \in (LastLineIndex + 1)..Len(messages) : messages[k].role = "assistant" })

C12_SubLoopBounded ==
    mode = "interactive" =>
        /\ iteration <= MAX_ITERATIONS
        /\ CallsAnswered <= MAX_ITERATIONS
        /\ pc = "awaiting" => iteration = CallsAnswered + 1
        /\ pc = "executing" => iteration = CallsAnswered
        /\ (pc = "reading" /\ LastLineIndex > 0) =>
              lastTurn.done \/ CallsAnswered = MAX_ITERATIONS
        /\ (pc \in {"awaiting", "executing"} /\ lastTurn.line = linesRead) => ~lastTurn.done

C12_LineStep ==
    mode = "interactive" =>
        IF linesRead' = linesRead + 1
        THEN IF userInput' = "" \/ ExitTyped'
             THEN messages' = messages
             ELSE /\ messages' = Append(messages, Message("user", <<Text(userInput')>>))
                  /\ pc' = "awaiting"
                  /\ iteration' = 1
        ELSE \/ messages' = messages
             \/ messages'[Len(messages')].role = "assistant"
             \/ HoldsToolResults(messages'[Len(messages')])

\* C12: an interactive line that is neither empty nor exit/quit appends exactly
\* one user entry and starts a sub-loop of turns; the sub-loop goes on while
\* the turns report continue and is left at done or after 20 inference calls.
C12_LineDrivesBoundedSubLoop == []C12_SubLoopBounded /\ [][C12_LineStep]_vars

\* a line whose 20 turns all called tools: the sub-loop is left at the cap
C12_Witness ==
    /\ mode = "interactive"
    /\ pc = "reading"
    /\ LastLineIndex > 0
    /\ CallsAnswered = MAX_ITERATIONS
    /\ ~lastTurn.done

\* the history before the step is a prefix of the history after it
C13_Extends ==
    /\ Len(messages') >= Len(messages)
    /\ SubSeq(messages', 1, Len(messages)) = messages

\* C13: every step leaves the earlier history as an unchanged prefix, in both
\* modes and across input lines, and a step in which a tool execution settles
\* while others of its turn are pending writes nothing: entries are appended
\* by the driver alone (the line read, the response, the joined results).
C13_HistoryIsAppendOnly ==
    [][/\ C13_Extends
       /\ (pc = "executing" /\ pc' = "executing") => messages' = messages
       /\ Len(messages') <= Len(messages) + 2]_vars

\* the second served line of a session: the first line and its results are
\* still in the history
C13_Witness ==
    /\ mode = "interactive"
    /\ LastLineIndex > 2
    /\ messages[1].role = "user"
    /\ ~HoldsToolResults(messages[1])
    /\ \E k \in 2..(LastLineIndex - 1) : HoldsToolResults(messages[k])
    /\ messages[Len(messages)].role = "assistant"

\* the spellings of one name that differ in letter case only
Spellings == { {"acme", "ACME", "Acme"}, {"web", "Web"}, {"alice", "Alice"},
               {"bob", "Bob", "BOB"} }

SameIgnoringCase(a, b) == a = b \/ \E S \in Spellings : a \in S /\ b \in S

\* some single entry of the repo allow-list is the pair (owner, repo)
RepoIsListed(owner, repo, c) ==
    \E i \in 1..Len(c.allowedRepos) :
        /\ SameIgnoringCase(c.allowedRepos[i].owner, owner)
        /\ SameIgnoringCase(c.allowedRepos[i].repo, repo)

RepoDenialPayload(owner, repo, c) ==
    ErrorPayload("Access denied: repository \"" \o owner \o "/" \o repo
                 \o "\" is not in the configured list. Allowed repos: "
                 \o Join(RepoNames(c.allowedRepos), ", "))

\* C14: validateRepo returns no error iff no repo allow-list is configured or
\* one entry matches owner and repo, both case-insensitively and exactly; for
\* every other request with an owner and a repo it returns the denial, and a
\* read tool then returns that denial as its result.
C14_RepoCheckIsExactPairMembership ==
    toolUses[1].name \in ReadTools =>
        LET owner == toolUses[1].input.owner
            repo  == toolUses[1].input.repo
            allowed == ~ctx.hasAllowedRepos \/ RepoIsListed(owner, repo, ctx)
            checked == validateRepo(owner, repo, ctx)
        IN
        /\ checked = Returned(NoError) <=> allowed
        /\ (~allowed /\ owner # UNDEFINED /\ repo # UNDEFINED) =>
              /\ ~checked.threw
              /\ checked.value.denied
        /\ (pc # "calling" /\ owner # UNDEFINED /\ repo # UNDEFINED) =>
              (exec[1].result.content = RepoDenialPayload(owner, repo, ctx) <=> ~allowed)

\* a request for a listed-looking pair against a list that is present and
\* empty was denied
C14_Witness ==
    /\ pc = "returned"
    /\ toolUses[1].name = "fetch_issues"
    /\ toolUses[1].input.owner = "acme"
    /\ toolUses[1].input.repo = "web"
    /\ ctx.hasAllowedRepos
    /\ ctx.allowedRepos = <<>>
    /\ exec[1].result.content = RepoDenialPayload("acme", "web", ctx)
    /\ ~exec[1].threw

\* some entry of the member allow-list is the username
MemberIsListed(username, c) ==
    \E i \in 1..Len(c.allowedMembers) : SameIgnoringCase(c.allowedMembers[i], username)

MemberDenialPayload(username, c) ==
    ErrorPayload("Access denied: \"" \o username
                 \o "\" is not a configured team member. Allowed members: "
                 \o Join(c.allowedMembers, ", "))

\* C15: validateMember returns no error iff no member allow-list is configured
\* or the username equals one entry case-insensitively and exactly; for every
\* other username it returns the denial message, which a read tool whose
\* repository passed returns as its result.
C15_MemberCheckIsExactMembership ==
    toolUses[1].name \in ReadTools =>
        LET username == toolUses[1].input.username
            allowed == ~ctx.hasAllowedMembers \/ MemberIsListed(username, ctx)
            checked == validateMember(username, ctx)
        IN
        /\ checked = Returned(NoError) <=> allowed
        /\ (~allowed /\ username # UNDEFINED) =>
              checked = Returned(Denial(MemberDenialPayload(username, ctx).body[1]))
        /\ (/\ pc # "calling"
            /\ username # UNDEFINED
            /\ validateRepo(toolUses[1].input.owner, toolUses[1].input.repo, ctx)
                  = Returned(NoError)) =>
              (exec[1].result.content = MemberDenialPayload(username, ctx) <=> ~allowed)

\* a prefix of a listed username was denied after the repository passed
C15_Witness ==
    /\ pc = "returned"
    /\ toolUses[1].name = "fetch_commits"
    /\ toolUses[1].input.username = "ali"
    /\ ctx.allowedMembers = <<"alice", "Bob">>
    /\ ~ctx.hasAllowedRepos
    /\ exec[1].result.content = MemberDenialPayload("ali", ctx)
    /\ netLog = {}

PostDenialPayload(offending, c) ==
    ErrorPayload("Access denied: standup includes non-team members: "
                 \o Join(offending, ", ") \o ". Allowed: " \o Join(c.allowedMembers, ", "))

\* C16: the posting tool rejects a standup entry exactly when validateMember
\* denies its username: for every member allow-list and every standup whose
\* entries have usernames, the call is rejected iff validateMember denies some
\* entry, and the rejection names exactly the usernames validateMember denies.
C16_PostingAppliesTheMemberRule ==
    (/\ toolUses[1].name = PostTool
     /\ toolUses[1].input.hasNotes
     /\ toolUses[1].input.notes # <<>>
     /\ \A j \in 1..Len(toolUses[1].input.notes) : toolUses[1].input.notes[j] # UNDEFINED) =>
        LET notes == toolUses[1].input.notes
            Denied(u) == validateMember(u, ctx) # Returned(NoError)
            offending == SelectSeq(notes, Denied)
        IN
        /\ \A j \in 1..Len(notes) :
              (ctx.hasAllowedMembers /\ IsInvalidUser(notes[j], ctx)) <=> Denied(notes[j])
        /\ pc # "calling" =>
              IF offending # <<>>
              THEN /\ exec[1].result.content = PostDenialPayload(offending, ctx)
                   /\ netLog = {}
              ELSE exec[1].threw \/ exec[1].api = "slack"

\* a standup with a foreign username first and a listed one second was
\* rejected naming the foreign one
C16_Witness ==
    /\ pc = "returned"
    /\ toolUses[1].name = PostTool
    /\ toolUses[1].input.notes = <<"carol", "alice">>
    /\ ctx.allowedMembers = <<"alice", "Bob">>
    /\ exec[1].result.content = PostDenialPayload(<<"carol">>, ctx)
    /\ validateMember("carol", ctx) # Returned(NoError)
    /\ validateMember("alice", ctx) = Returned(NoError)

\* C17: a read tool checks the repository, then the member, then fetches:
\* with both outside their lists the result is the repository denial, the
\* member denial is the result only when the repository passed, and the data
\* source is called only when both passed.
C17_ReadToolsValidateRepoThenMember ==
    (/\ pc # "calling"
     /\ toolUses[1].name \in ReadTools
     /\ toolUses[1].input.owner # UNDEFINED
     /\ toolUses[1].input.repo # UNDEFINED
     /\ toolUses[1].input.username # UNDEFINED) =>
        LET owner == toolUses[1].input.owner
            repo == toolUses[1].input.repo
            username == toolUses[1].input.username
            repoOk == ~ctx.hasAllowedRepos \/ RepoIsListed(owner, repo, ctx)
            memberOk == ~ctx.hasAllowedMembers \/ MemberIsListed(username, ctx)
            fetched == \E n \in netLog : n.id = toolUses[1].id /\ n.api = "github"
        IN
        /\ ~repoOk => exec[1].result.content = RepoDenialPayload(owner, repo, ctx)
        /\ exec[1].result.content = MemberDenialPayload(username, ctx) <=> (repoOk /\ ~memberOk)
        /\ fetched <=> (repoOk /\ memberOk)

\* repository and username both outside their lists: the repository denial
C17_Witness ==
    /\ pc = "returned"
    /\ toolUses[1].name = "fetch_pull_requests"
    /\ toolUses[1].input.owner = "beta"
    /\ toolUses[1].input.repo = "web"
    /\ toolUses[1].input.username = "carol"
    /\ ctx.allowedRepos = <<Repo("Acme", "web")>>
    /\ ctx.allowedMembers = <<"alice", "Bob">>
    /\ exec[1].result.content = RepoDenialPayload("beta", "web", ctx)
    /\ netLog = {}

\* C18: a posting call whose standup_notes is missing or empty returns the
\* "No standup notes provided" payload without raising and without a posting
\* call, whatever the member allow-list and the timezone are; no other posting
\* call gets that payload.
C18_EmptyStandupIsRejectedFirst ==
    (pc # "calling" /\ toolUses[1].name = PostTool) =>
        LET empty == ~toolUses[1].input.hasNotes \/ toolUses[1].input.notes = <<>> IN
        /\ empty =>
              /\ exec[1].result.content =
                    ErrorPayload("No standup notes provided. Include at least one team member.")
              /\ ~exec[1].threw
              /\ ~exec[1].result.is_error
              /\ exec[1].api = "none"
              /\ netLog = {}
        /\ ~empty =>
              exec[1].result.content #
                    ErrorPayload("No standup notes provided. Include at least one team member.")

\* standup_notes missing, a member allow-list set and an invalid timezone
C18_Witness ==
    /\ pc = "returned"
    /\ toolUses[1].name = PostTool
    /\ ~toolUses[1].input.hasNotes
    /\ ctx.allowedMembers = <<"alice", "Bob">>
    /\ ~ctx.timezoneValid
    /\ exec[1].result.content.kind = "error"
    /\ ~exec[1].threw
    /\ netLog = {}

\* C19: executeTool answers every name outside the four tools with the
\* {error: "Unknown tool: <name>"} payload and no upstream call, and it never
\* raises, whatever the name and the input are.
C19_ExecutorNeverRaises ==
    \A i \in 1..Len(exec) :
        exec[i].settled =>
            /\ ~exec[i].threw
            /\ toolUses[i].name \notin ToolNames =>
                  /\ exec[i].result.content = ErrorPayload("Unknown tool: " \o toolUses[i].name)
                  /\ exec[i].api = "none"
                  /\ NoUpstreamCallFor(toolUses[i].id)

\* the elements of a list of at most two strings, separated by ", "
Listing(list) ==
    IF list = <<>> THEN ""
    ELSE IF Len(list) = 1 THEN list[1]
    ELSE list[1] \o ", " \o list[2]

\* owner/repo of every entry of the repo allow-list, in configured order
ConfiguredRepos(c) ==
    [i \in 1..Len(c.allowedRepos) |-> c.allowedRepos[i].owner \o "/" \o c.allowedRepos[i].repo]

\* C20: a denial restates the whole configured allow-list: the repo denial
\* lists every configured owner/repo in configured order, the member denial
\* every configured member, and the posting denial every offending username
\* of the call and every configured member.
C20_DenialsRestateTheAllowedSet ==
    pc # "calling" =>
        LET in == toolUses[1].input
            repoOk == ~ctx.hasAllowedRepos \/ RepoIsListed(in.owner, in.repo, ctx)
            memberOk == ~ctx.hasAllowedMembers \/ MemberIsListed(in.username, ctx)
            Foreign(u) == ~MemberIsListed(u, ctx)
            offending == SelectSeq(in.notes, Foreign)
        IN
        /\ (/\ toolUses[1].name \in ReadTools
            /\ in.owner # UNDEFINED /\ in.repo # UNDEFINED
            /\ ~repoOk) =>
              exec[1].result.content.body =
                  << "Access denied: repository \"" \o in.owner \o "/" \o in.repo
                     \o "\" is not in the configured list. Allowed repos: "
                     \o Listing(ConfiguredRepos(ctx)) >>
        /\ (/\ toolUses[1].name \in ReadTools
            /\ in.owner # UNDEFINED /\ in.repo # UNDEFINED /\ in.username # UNDEFINED
            /\ repoOk /\ ~memberOk) =>
              exec[1].result.content.body =
                  << "Access denied: \"" \o in.username
                     \o "\" is not a configured team member. Allowed members: "
                     \o Listing(ctx.allowedMembers) >>
        /\ (/\ toolUses[1].name = PostTool
            /\ ctx.hasAllowedMembers
            /\ \A j \in 1..Len(in.notes) : in.notes[j] # UNDEFINED
            /\ offending # <<>>) =>
              exec[1].result.content.body =
                  << "Access denied: standup includes non-team members: "
                     \o Listing(offending) \o ". Allowed: " \o Listing(ctx.allowedMembers) >>

\* a repo denial under a list of two entries names both, in configured order
C20_Witness ==
    /\ pc = "returned"
    /\ toolUses[1].name = "fetch_commits"
    /\ toolUses[1].input.owner = "acme"
    /\ toolUses[1].input.repo = "infra"
    /\ toolUses[1].input.username = "BOB"
    /\ ctx.allowedRepos = <<Repo("acme", "web"), Repo("beta", "infra")>>
    /\ exec[1].result.content.body =
          << "Access denied: repository \"acme/infra\" is not in the configured list. Allowed repos: acme/web, beta/infra" >>

\* console lines of the catch around anthropic.messages.create
ApiErrorLines == { "api_error: authentication", "api_error: rate limit",
                   "api_error: overloaded", "api_error: Connection error." }

\* inference calls that failed so far
InferenceFailures == Cardinality({ j \in 1..Len(console) : console[j] \in ApiErrorLines })

\* assistant entries of the history
AssistantEntries == Cardinality({ k \in 1..Len(messages) : messages[k].role = "assistant" })

C21_EveryResponseIsRecorded ==
    /\ AssistantEntries + InferenceFailures + (IF pc = "awaiting" THEN 1 ELSE 0) = inferenceCalls
    /\ pc = "executing" =>
          /\ messages[Len(messages)].role = "assistant"
          /\ ToolUsesOf(messages[Len(messages)]) = toolUses
    /\ \A n \in netLog :
          \E k \in 1..Len(messages) :
              /\ messages[k].role = "assistant"
              /\ \E j \in 1..Len(messages[k].content) : messages[k].content[j].id = n.id
    /\ (lastTurn.why = "no_tool_use" /\ lastTurn.call = inferenceCalls) =>
          /\ messages[Len(messages)].role = "assistant"
          /\ ToolUsesOf(messages[Len(messages)]) = <<>>

\* the step in which an inference call returns a response
C21_ResponseStep ==
    (pc = "awaiting" /\ ~(lastTurn'.why = "api_error" /\ lastTurn'.call = inferenceCalls)) =>
        /\ Len(messages') >= Len(messages) + 1
        /\ SubSeq(messages', 1, Len(messages)) = messages
        /\ messages'[Len(messages) + 1].role = "assistant"
        /\ ToolUsesOf(messages'[Len(messages) + 1]) = toolUses'
        /\ \A n \in netLog' \ netLog : n.id[1] = inferenceCalls
        /\ toolUses' = <<>> =>
              /\ Len(messages') = Len(messages) + 1
              /\ lastTurn'.done
              /\ netLog' = netLog

\* C21: every inference call that returns a response appends its content as
\* one assistant entry, in the step in which it returns and before any tool
\* of the response awaits its upstream call, also when the response holds no
\* tool call and the turn is terminal.
C21_ResponseIsAppendedUnconditionally ==
    []C21_EveryResponseIsRecorded /\ [][C21_ResponseStep]_vars

\* a terminal response after a turn that called tools: its text is recorded
C21_Witness ==
    /\ lastTurn.why = "no_tool_use"
    /\ lastTurn.call = inferenceCalls
    /\ inferenceCalls >= 2
    /\ messages[Len(messages)] = Message("assistant", <<Text("answer")>>)
    /\ HoldsToolResults(messages[Len(messages) - 1])

\* the step in which the inference call of the turn returned a response
C22_Answered ==
    \/ pc = "executing"
    \/ /\ pc = "awaiting"
       /\ Len(messages') > Len(messages)
       /\ messages'[Len(messages) + 1].role = "assistant"

\* the content of that response
C22_Response ==
    IF pc = "executing" THEN messages[Len(messages)].content
    ELSE messages'[Len(messages) + 1].content

\* C22: when runAgentTurn returns, it reports continue (false) iff its
\* inference call returned a response holding at least one tool_use block,
\* and finished (true) in every other case: a failed call, a response of text
\* only; a text block next to a tool_use block changes nothing.
C22_ContinueIffToolCall ==
    [][lastTurn' # lastTurn =>
          /\ pc \in {"awaiting", "executing"}
          /\ lastTurn'.call = inferenceCalls
          /\ ~lastTurn'.done <=>
                (C22_Answered /\ \E j \in 1..Len(C22_Response) : IsToolUse(C22_Response[j]))
          /\ ~lastTurn'.done =>
                /\ HoldsToolResults(messages'[Len(messages')])
                /\ \A i \in 1..Len(exec') : exec'[i].settled]_vars

\* a response with a text block and a tool call: the turn reported continue
C22_Witness ==
    /\ lastTurn.call = inferenceCalls
    /\ ~lastTurn.done
    /\ Len(messages) >= 2
    /\ messages[Len(messages) - 1].role = "assistant"
    /\ messages[Len(messages) - 1].content[1].type = "text"
    /\ Len(messages[Len(messages) - 1].content) = 2
    /\ IsToolUse(messages[Len(messages) - 1].content[2])
    /\ HoldsToolResults(messages[Len(messages)])

\* a posting call that passes the validation of the post case
C23_PassesValidation(use) ==
    /\ use.name = PostTool
    /\ use.input.hasNotes
    /\ use.input.notes # <<>>
    /\ \A j \in 1..Len(use.input.notes) :
          /\ use.input.notes[j] # UNDEFINED
          /\ ~ctx.hasAllowedMembers \/ MemberIsListed(use.input.notes[j], ctx)

C23_Confirmation(use) ==
    PlainPayload("Standup posted to Slack for " \o ToString(Len(use.input.notes))
                 \o " team member(s).")

\* the payloads a posting call returns when its own invocation failed
C23_FailureReports ==
    { ErrorPayload("Slack authentication failed. Check your SLACK_USER_TOKEN."),
      ErrorPayload("Slack channel not found. Check your SLACK_CHANNEL_ID."),
      ErrorPayload("Slack posting failed: An API error occurred: ratelimited") }

\* the tool_use blocks of the history that pass the validation
C23_ValidatedPosts ==
    { <<k, j>> \in (1..Len(messages)) \X (1..(MaxToolUses + 1)) :
        /\ messages[k].role = "assistant"
        /\ j <= Len(messages[k].content)
        /\ IsToolUse(messages[k].content[j])
        /\ C23_PassesValidation(messages[k].content[j]) }

\* C23: there is no once-per-session guard on posting. In a session whose
\* timezone is valid, every posting call that passes validation invokes the
\* posting client, however many posting calls the session made before it, in
\* earlier turns or in the same turn, and it returns the success confirmation
\* exactly when its own invocation succeeded.
C23_EveryValidatedPostIsSent ==
    /\ \A i \in 1..Len(exec) :
          C23_PassesValidation(toolUses[i]) =>
              /\ [id |-> toolUses[i].id, api |-> "slack"] \in netLog
              /\ exec[i].api = "slack"
              /\ exec[i].settled =>
                    (exec[i].result.content = C23_Confirmation(toolUses[i])
                        <=> exec[i].upstream = "ok")
    /\ \A p \in C23_ValidatedPosts :
          /\ [id |-> messages[p[1]].content[p[2]].id, api |-> "slack"] \in netLog
          /\ p[1] < Len(messages) =>
                 \E i \in 1..Len(messages[p[1] + 1].content) :
                    /\ messages[p[1] + 1].content[i].tool_use_id = messages[p[1]].content[p[2]].id
                    /\ \/ messages[p[1] + 1].content[i].content
                             = C23_Confirmation(messages[p[1]].content[p[2]])
                       \/ messages[p[1] + 1].content[i].content \in C23_FailureReports
    /\ Cardinality({ n \in netLog : n.api = "slack" }) = Cardinality(C23_ValidatedPosts)

\* two posting calls in different turns of one session were both confirmed
C23_Witness ==
    /\ Cardinality(C23_ValidatedPosts) = 2
    /\ \E p, q \in C23_ValidatedPosts :
          /\ p[1] < q[1]
          /\ q[1] < Len(messages)
          /\ messages[p[1] + 1].content[1].content = C23_Confirmation(PostCall)
          /\ messages[q[1] + 1].content[1].content = C23_Confirmation(PostCall)

\* two posting calls of one response were both sent and confirmed
C23_SameTurnWitness ==
    /\ Len(exec) = 2
    /\ C23_PassesValidation(toolUses[1])
    /\ C23_PassesValidation(toolUses[2])
    /\ exec[1].settled /\ exec[1].upstream = "ok"
    /\ exec[2].settled /\ exec[2].upstream = "ok"
    /\ exec[1].result.content = C23_Confirmation(toolUses[1])
    /\ exec[2].result.content = C23_Confirmation(toolUses[2])

\* the context is the one buildToolContext made of the session's configuration
C24_ContextAsBuilt ==
    /\ ctx = buildToolContext(config)
    /\ ctx.allowedMembers = config.team_members
    /\ ctx.allowedRepos = IF config.hasGithubRepos THEN config.github_repos
                          ELSE <<Repo(config.github_owner, config.github_repo)>>
    /\ \A i \in 1..Len(exec) :
          exec[i].api = "none" => exec[i] = StartToolUse(toolUses[i], buildToolContext(config))

\* C24: no step of a session writes the ToolContext or the configuration it
\* was built from: the allow-lists, the time-window bound and the posting
\* credentials stay what buildToolContext made them, and every tool call is
\* judged against them.
C24_ContextIsNeverMutated ==
    []C24_ContextAsBuilt /\ [][ctx' = ctx /\ config' = config]_vars

\* the second line of a session, after tool calls were denied and executed
C24_Witness ==
    /\ mode = "interactive"
    /\ linesRead = 2
    /\ pc = "executing"
    /\ netLog # {}
    /\ \E k \in 1..Len(messages) :
          /\ HoldsToolResults(messages[k])
          /\ messages[k].content[1].content.kind = "error"
    /\ ctx = buildToolContext(SingleRepoConfig)

\* the messages that hold one of the given words
C25_Holding(words) ==
    words \cup { a \o ": " \o b : a \in words, b \in GitHubWords }
          \cup { b \o ": " \o a : a \in words, b \in GitHubWords }

\* the text the mapping owes a message: the first signal in the order
\* not-found, bad-credentials, rate-limit, else the message itself
C25_Expected(msg) ==
    IF msg \in C25_Holding({"Not Found", "404"})
    THEN "Repository or user not found. The repo may be private or the name may be incorrect."
    ELSE IF msg \in C25_Holding({"Bad credentials", "401"})
    THEN "GitHub authentication failed. The token may be invalid or expired."
    ELSE IF msg \in C25_Holding({"rate limit", "403"})
    THEN "GitHub API rate limit exceeded. Please wait a few minutes and try again."
    ELSE msg

C26_IdentityCheckIsAdvisory ==
    mode = "interactive" =>
        /\ pc = "verifying" =>
              /\ console = <<>>
              /\ messages = <<>>
              /\ linesRead = 0
              /\ inferenceCalls = 0
        /\ pc # "verifying" =>
              /\ console[1] \in {"github_verified", "github_unverified"}
              /\ \A j \in 2..Len(console) :
                    console[j] \notin {"github_verified", "github_unverified"}
        /\ (pc = "reading" /\ linesRead = 0) =>
              /\ messages = <<>>
              /\ netLog = {}
              /\ ENABLED LineRead
        /\ (pc = "reading" /\ linesRead < MaxLines) => ENABLED LineRead
        /\ pc = "awaiting" => ENABLED InferenceReturns
        /\ (pc = "executing") => ENABLED ToolSettles
        /\ pc = "stopped" =>
              /\ console[Len(console)] = "bye"
              /\ Len(console) >= 2

\* after a failed check a line was served and its tool call reached the data
\* source
C26_Witness ==
    /\ mode = "interactive"
    /\ console # <<>>
    /\ console[1] = "github_unverified"
    /\ linesRead >= 1
    /\ netLog # {}
    /\ \E k \in 1..Len(messages) :
          /\ HoldsToolResults(messages[k])
          /\ \E i \in 1..Len(messages[k].content) : messages[k].content[i].content.kind = "list"

\* the pair an entry of UpdateEntries names, by the way it is written
C27_PairOf(entry) ==
    CASE entry = <<"o", "/", "r">>           -> Repo("o", "r")
      [] entry = <<" ", "o", "/", "r", " ">> -> Repo("o", "r")
      [] entry = <<"p", "/", "q">>           -> Repo("p", "q")

C27_IsPair(entry) ==
    entry \in { <<"o", "/", "r">>, <<" ", "o", "/", "r", " ">>, <<"p", "/", "q">> }

C27_IsBlank(entry) == entry \in { <<>>, <<" ">> }

\* the pairs of a list of entries, in the order written
C27_Pairs(es) ==
    LET written == SelectSeq(es, C27_IsPair) IN
    [i \in 1..Len(written) |-> C27_PairOf(written[i])]

\* a list of owner/repo pairs, blank entries apart, with one pair at least
C27_WellFormed(es) ==
    /\ \A i \in 1..Len(es) : C27_IsPair(es[i]) \/ C27_IsBlank(es[i])
    /\ \E i \in 1..Len(es) : C27_IsPair(es[i])

\* C27: update repos succeeds exactly for a comma-separated list of
\* owner/repo pairs with one pair at least (blanks around and between the
\* entries apart); github_repos then holds every pair in the order written
\* and github_owner/github_repo are the first pair. Otherwise the command
\* exits and the configuration keeps its primary repository.
C27_UpdateReposStoresTheList ==
    (pc # "update" /\ args[1] = "repos" /\ config # NoConfigFile) =>
        \A es \in UpdateEntryLists :
            args[2] = JoinChars(es, ",") =>
                /\ pc = "written" <=> C27_WellFormed(es)
                /\ pc = "written" =>
                      /\ config.hasGithubRepos
                      /\ config.github_repos = C27_Pairs(es)
                      /\ config.github_owner = C27_Pairs(es)[1].owner
                      /\ config.github_repo = C27_Pairs(es)[1].repo
                      /\ console = <<"updated repos">>
                /\ pc = "exited" =>
                      /\ config \in Configs
                      /\ console # <<>>

\* two pairs, the second written with blanks, replaced a primary repository
\* that is neither
C27_Witness ==
    /\ pc = "written"
    /\ args = << "repos", <<"p", "/", "q", ",", " ", "o", "/", "r", " ">> >>
    /\ config.github_repos = <<Repo("p", "q"), Repo("o", "r")>>
    /\ config.github_owner = "p"
    /\ config.github_repo = "q"
    /\ config.team_members = <<"alice", "Bob">>

\* invocations of the posting client so far
C28_Posts == { n \in netLog : n.api = "slack" }

\* the notes are those of the first k members, one each, in configured order
C28_NotesOfFirst(k) ==
    /\ Len(standupNotes) = k
    /\ \A i \in 1..k : standupNotes[i].username = config.team_members[i]

\* members are handled one after another in configured order with one note
\* each, and the posting client is invoked once, after the last member, with
\* all notes
C28_RunInOrder ==
    /\ pc = "fetching" => C28_NotesOfFirst(nextMember - 1) /\ C28_Posts = {}
    /\ pc = "summarizing" => C28_NotesOfFirst(nextMember - 1) /\ C28_Posts = {}
    /\ pc \in {"posting", "done"} =>
          /\ C28_NotesOfFirst(Len(config.team_members))
          /\ C28_Posts = {[id |-> NoId, api |-> "slack", notes |-> standupNotes]}
          /\ Cardinality({ j \in 1..Len(console) : console[j] = "posting" }) = 1

\* C28: a run handles the members one after another in configured order,
\* builds exactly one note per member, a fallback note when summarization
\* fails, and, when it ends, has invoked the posting client exactly once,
\* after the last member, with all notes in member order.
C28_OneNotePerMemberOnePost ==
    /\ C28_RunInOrder
    /\ pc = "fatal" =>
          /\ C28_NotesOfFirst(Len(config.team_members))
          /\ C28_Posts = {[id |-> NoId, api |-> "slack", notes |-> standupNotes]}

\* what the run does keep: the order and the notes of every run that got past
\* its start, and no note and no post for a timezone that is not valid
C28_ValidTimezoneRun ==
    /\ C28_RunInOrder
    /\ pc = "fatal" =>
          IF config.timezoneValid
          THEN /\ C28_NotesOfFirst(Len(config.team_members))
               /\ C28_Posts = {[id |-> NoId, api |-> "slack", notes |-> standupNotes]}
          ELSE standupNotes = <<>> /\ C28_Posts = {} /\ inferenceCalls = 0

\* turns of the run that reported continue: each appended one results entry
C29_ContinuedTurns ==
    Cardinality({ k \in 1..Len(messages) : HoldsToolResults(messages[k]) })

C29_Logged(line) == \E j \in 1..Len(console) : console[j] = line

\* C29: an autonomous run ends Done or Exhausted, never both. It stops exactly
\* when one of the two lines is logged, as the last line. Finished is logged
\* iff the last turn, the k-th of at most 20, reported finished, after exactly
\* k inference calls, also for k = 20. The warning is logged iff all 20 turns
\* reported continue; the history then holds the prompt and every response
\* and results entry of the 20 turns and ends with the results of turn 20.
C29_DoneAndExhaustedAreExclusive ==
    mode = "autonomous" =>
        /\ ~(C29_Logged("finished") /\ C29_Logged("max_iterations"))
        /\ pc = "stopped" <=> (C29_Logged("finished") \/ C29_Logged("max_iterations"))
        /\ pc = "stopped" =>
              /\ console[Len(console)] \in {"finished", "max_iterations"}
              /\ \A j \in 1..(Len(console) - 1) :
                    console[j] \notin {"finished", "max_iterations"}
              /\ ~ENABLED NextAutonomous
              /\ inferenceCalls = lastTurn.turn
              /\ lastTurn.turn \in 1..MAX_ITERATIONS
              /\ C29_Logged("finished") <=> lastTurn.done
              /\ C29_ContinuedTurns = IF lastTurn.done THEN inferenceCalls - 1 ELSE inferenceCalls
        /\ C29_Logged("max_iterations") <=>
              (pc # "executing" /\ C29_ContinuedTurns = MAX_ITERATIONS)
        /\ C29_Logged("max_iterations") =>
              /\ inferenceCalls = MAX_ITERATIONS
              /\ Len(messages) = 1 + 2 * MAX_ITERATIONS
              /\ messages[1] = TaskPrompt
              /\ HoldsToolResults(messages[Len(messages)])
              /\ messages[Len(messages)].content[1].tool_use_id[1] = MAX_ITERATIONS
              /\ messages[Len(messages) - 1].role = "assistant"

\* the 20th turn reported finished: Done, without the warning
C29_Witness ==
    /\ mode = "autonomous"
    /\ pc = "stopped"
    /\ lastTurn.done
    /\ lastTurn.turn = MAX_ITERATIONS
    /\ inferenceCalls = MAX_ITERATIONS
    /\ console[Len(console)] = "finished"
    /\ ~C29_Logged("max_iterations")

\* the step in which an inference call fails: its catch logs one line
C30_CallFails ==
    /\ pc = "awaiting"
    /\ Len(console') = Len(console) + 1
    /\ console'[Len(console')] \in ApiErrorLines

\* after a failed call the history ends with the entry the call was made on:
\* the prompt or the line's entry at turn 1, the results of the turn before
\* otherwise
C30_HistoryAfterFailure ==
    (lastTurn.why = "api_error" /\ lastTurn.call = inferenceCalls) =>
        /\ messages # <<>>
        /\ messages[Len(messages)].role = "user"
        /\ HoldsToolResults(messages[Len(messages)]) <=> lastTurn.turn > 1
        /\ (mode = "interactive" /\ lastTurn.turn = 1 /\ lastTurn.line = linesRead) =>
              messages[Len(messages)] = Message("user", <<Text(userInput)>>)

\* C30: a failed inference call leaves the history as it was when the turn
\* began, in both modes: nothing is appended, nothing is removed, no tool
\* runs. In interactive mode the entry of the failed line stays, and the next
\* line served is appended directly after it.
C30_FailedCallLeavesHistory ==
    /\ []C30_HistoryAfterFailure
    /\ [][/\ C30_CallFails =>
                /\ messages' = messages
                /\ toolUses' = toolUses
                /\ exec' = exec
                /\ netLog' = netLog
                /\ lastTurn'.done
          /\ (/\ mode = "interactive"
              /\ pc = "reading"
              /\ lastTurn.why = "api_error"
              /\ lastTurn.call = inferenceCalls
              /\ messages' # messages) =>
                /\ messages' = Append(messages, Message("user", <<Text(userInput')>>))
                /\ messages'[Len(messages)].role = "user"]_vars

\* the first line's call failed and the second line was appended after the
\* first: two user entries in a row
C30_Witness ==
    /\ mode = "interactive"
    /\ linesRead = 2
    /\ pc = "awaiting"
    /\ lastTurn.why = "api_error"
    /\ lastTurn.turn = 1
    /\ messages = << Message("user", <<Text("what did Bob do?")>>),
                     Message("user", <<Text("what did Bob do?")>>) >>

\* the entry answers the calls of the response: one tool_result block per
\* tool_use block and no other block, each id answered once
C31_Answers(response, answer) ==
    LET uses == ToolUsesOf(response) IN
    /\ answer.role = "user"
    /\ Len(answer.content) = Len(uses)
    /\ \A j \in 1..Len(answer.content) : IsToolResult(answer.content[j])
    /\ \A i \in 1..Len(uses) :
          Cardinality({ j \in 1..Len(answer.content) :
                          answer.content[j].tool_use_id = uses[i].id }) = 1

\* C31: at every turn boundary, in both session modes, no tool call is left
\* unanswered: every assistant entry that holds tool_use blocks is immediately
\* followed by a user entry whose tool_result blocks answer exactly those
\* calls, also when the iteration cap stops the run or the sub-loop. Inside a
\* turn only the calls of the response just received are open.
C31_NoCallIsLeftUnanswered ==
    /\ pc = "executing" =>
          /\ messages # <<>>
          /\ messages[Len(messages)].role = "assistant"
          /\ ToolUsesOf(messages[Len(messages)]) = toolUses
    /\ \A k \in 1..Len(messages) :
          (messages[k].role = "assistant" /\ ToolUsesOf(messages[k]) # <<>>) =>
              IF k = Len(messages) THEN pc = "executing"
              ELSE C31_Answers(messages[k], messages[k + 1])
    /\ pc # "executing" =>
          Cardinality({ k \in 1..Len(messages) :
                          messages[k].role = "assistant" /\ ToolUsesOf(messages[k]) # <<>> })
            = Cardinality({ k \in 1..Len(messages) : HoldsToolResults(messages[k]) })

\* the cap stopped an autonomous run whose 20th response held two calls, and
\* both are answered
C31_Witness ==
    /\ mode = "autonomous"
    /\ pc = "stopped"
    /\ console[Len(console)] = "max_iterations"
    /\ Len(messages) = 1 + 2 * MAX_ITERATIONS
    /\ Len(ToolUsesOf(messages[Len(messages) - 1])) = 2
    /\ C31_Answers(messages[Len(messages) - 1], messages[Len(messages)])

\* entries a turn appends, by the way it ended
C32_Growth(why) ==
    CASE why = "api_error"    -> 0
      [] why = "no_tool_use"  -> 1
      [] why = "tool_results" -> 2

\* C32: in autonomous mode the history starts with the single user entry
\* holding the task prompt and its roles alternate user, assistant, user, ...
\* Every turn before the current one appended two entries; the turn that
\* ended last appended none (inference failure), one (no tool call) or two
\* (tool calls); inside a turn only the response is appended. So the history
\* never holds more than 1 + 2*20 entries.
C32_AutonomousHistoryAlternates ==
    mode = "autonomous" =>
        /\ messages # <<>>
        /\ messages[1] = TaskPrompt
        /\ \A k \in 1..Len(messages) :
              messages[k].role = IF k % 2 = 1 THEN "user" ELSE "assistant"
        /\ \A k \in 2..Len(messages) :
              messages[k].role = "user" => HoldsToolResults(messages[k])
        /\ Len(messages) <= 1 + 2 * MAX_ITERATIONS
        /\ iteration \in 1..MAX_ITERATIONS
        /\ pc = "awaiting" => Len(messages) = 1 + 2 * (iteration - 1)
        /\ pc = "executing" => Len(messages) = 2 * iteration
        /\ pc = "stopped" =>
              /\ lastTurn.turn = iteration
              /\ Len(messages) = 1 + 2 * (iteration - 1) + C32_Growth(lastTurn.why)
        /\ lastTurn # NoTurn =>
              /\ lastTurn.why \in {"api_error", "no_tool_use", "tool_results"}
              /\ pc = "awaiting" => (lastTurn.why = "tool_results" /\ lastTurn.turn = iteration - 1)

\* a run of three turns that grew the history by two entries, by two and by
\* none
C32_Witness ==
    /\ mode = "autonomous"
    /\ pc = "stopped"
    /\ lastTurn.turn = 3
    /\ lastTurn.why = "api_error"
    /\ Len(messages) = 5
    /\ messages[5].role = "user"

\* what a session driver can tell after a turn: the value runAgentTurn
\* returned, where the driver went and the line it logged itself
C33_Observed ==
    [done |-> lastTurn.done, pc |-> pc,
     line |-> IF mode = "autonomous" /\ console # <<>> THEN console[Len(console)] ELSE ""]

\* C33: the session drivers cannot tell a failed inference call from a
\* finished task. runAgentTurn returns true for both and false only after tool
\* results; after either, an autonomous run has logged finished and stopped
\* for good, with as many inference calls as turns, and an interactive sub-loop
\* is back at reading; no state of a session is a Failed outcome.
C33_FailureLooksLikeCompletion ==
    /\ pc \in {"verifying", "reading", "awaiting", "executing", "stopped"}
    /\ lastTurn.done <=> lastTurn.why \in {"api_error", "no_tool_use"}
    /\ (mode = "autonomous" /\ lastTurn.why \in {"api_error", "no_tool_use"}) =>
          /\ C33_Observed = [done |-> TRUE, pc |-> "stopped", line |-> "finished"]
          /\ inferenceCalls = lastTurn.turn
          /\ ~ENABLED NextAutonomous
          /\ \A j \in 1..Len(console) : console[j] \notin {"failed", "max_iterations"}
    /\ (/\ mode = "interactive"
        /\ lastTurn.why \in {"api_error", "no_tool_use"}
        /\ lastTurn.call = inferenceCalls) =>
          /\ lastTurn.done
          /\ pc \in {"reading", "stopped"}
          /\ pc = "reading" /\ linesRead < MaxLines => ENABLED LineRead

\* an autonomous run whose second inference call failed: it logged the
\* classified line and then finished, as a run that completed does
C33_Witness ==
    /\ mode = "autonomous"
    /\ lastTurn.why = "api_error"
    /\ lastTurn.turn = 2
    /\ pc = "stopped"
    /\ Len(console) >= 2
    /\ console[Len(console) - 1] \in ApiErrorLines
    /\ console[Len(console)] = "finished"

\* the repositories a configuration names: the list, or the primary pair when
\* the configuration has no list
C34_ConfiguredRepos ==
    IF config.hasGithubRepos THEN config.github_repos
    ELSE <<[owner |-> config.github_owner, repo |-> config.github_repo]>>

\* the call went upstream: it passed the checks of executeTool
C34_WentUpstream(i) == exec[i].api # "none"

\* C34: the ToolContext of a session, autonomous or interactive, has both
\* allow-lists: allowedMembers is the configured team_members and allowedRepos
\* is github_repos or, without github_repos, the single pair (github_owner,
\* github_repo). So no tool call is evaluated as unrestricted: a call goes
\* upstream only for a listed repository and listed members.
C34_BothAllowListsArePresent ==
    mode \in {"autonomous", "interactive"} =>
        /\ ctx.hasAllowedRepos
        /\ ctx.hasAllowedMembers
        /\ ctx.allowedMembers = config.team_members
        /\ ctx.allowedRepos = C34_ConfiguredRepos
        /\ ctx.allowedRepos # <<>>
        /\ \A i \in 1..Len(exec) :
              LET use == toolUses[i] IN
              /\ (use.name \in ReadTools /\ C34_WentUpstream(i)) =>
                    /\ RepoIsListed(use.input.owner, use.input.repo, ctx)
                    /\ MemberIsListed(use.input.username, ctx)
              /\ (use.name = PostTool /\ C34_WentUpstream(i)) =>
                    \A j \in 1..Len(use.input.notes) : MemberIsListed(use.input.notes[j], ctx)
              /\ use.name \notin ToolNames => ~C34_WentUpstream(i)

\* a session configured without github_repos: the single pair is the repo
\* allow-list, one call was let through and one was held back
C34_Witness ==
    /\ mode = "autonomous"
    /\ ~config.hasGithubRepos
    /\ ctx.allowedRepos = <<Repo("acme", "web")>>
    /\ ctx.allowedMembers = <<"alice", "Bob">>
    /\ Len(exec) = 2
    /\ C34_WentUpstream(1)
    /\ ~C34_WentUpstream(2)
    /\ toolUses[2].name \in ToolNames

\* messages of the posting client that name a refused token
C35_TokenRefused ==
    {"An API error occurred: invalid_auth", "An API error occurred: not_authed"}

\* messages of the posting client that name a missing channel
C35_ChannelMissing == {"An API error occurred: channel_not_found"}

\* the {error} payload a failure of the posting client is reported with
C35_Reported(msg) ==
    IF msg \in C35_TokenRefused
    THEN ErrorPayload("Slack authentication failed. Check your SLACK_USER_TOKEN.")
    ELSE IF msg \in C35_ChannelMissing
    THEN ErrorPayload("Slack channel not found. Check your SLACK_CHANNEL_ID.")
    ELSE ErrorPayload("Slack posting failed: " \o msg)

\* the posting client was called for the i-th call of the turn and failed
C35_PostFailed(i) ==
    /\ toolUses[i].name = PostTool
    /\ exec[i].settled
    /\ exec[i].api = "slack"
    /\ exec[i].upstream = "failed"

\* C35: a failure of the posting client inside post_standup_to_slack is caught
\* and returned as an {error} payload: the authentication text, the
\* channel-not-found text, or the generic text with the original message. The
\* executor does not raise, the result carries no is_error flag, it is
\* answered in the history like every other result and the turn reports
\* continue.
C35_PostingFailureIsAnErrorPayload ==
    \A i \in 1..Len(exec) :
        C35_PostFailed(i) =>
            /\ ~exec[i].threw
            /\ ~exec[i].result.is_error
            /\ exec[i].result.tool_use_id = toolUses[i].id
            /\ exec[i].result.content = C35_Reported(exec[i].failure)
            /\ (pc # "executing" /\ lastTurn.call = toolUses[i].id[1]) =>
                  /\ lastTurn.why = "tool_results"
                  /\ ~lastTurn.done
                  /\ \E k \in 1..Len(messages) :
                        /\ HoldsToolResults(messages[k])
                        /\ Len(messages[k].content) = Len(exec)
                        /\ messages[k].content[i] = exec[i].result

\* a posting call failed with an error of no recognised kind and its turn, the
\* last of the sub-loop, reported continue
C35_Witness ==
    /\ mode = "interactive"
    /\ pc = "reading"
    /\ Len(exec) = 1
    /\ C35_PostFailed(1)
    /\ exec[1].failure = "An API error occurred: ratelimited"
    /\ exec[1].result.content =
          ErrorPayload("Slack posting failed: An API error occurred: ratelimited")
    /\ ~lastTurn.done

\* the step in which the read loop receives a line that is empty once trimmed
C36_BlankLineRead ==
    /\ mode = "interactive"
    /\ pc = "reading"
    /\ linesRead' = linesRead + 1
    /\ userInput' = ""

\* after a blank line the session is where it was before it: ready for the
\* next line, or ended by the close of the input
C36_ReadyAfterBlankLine ==
    (mode = "interactive" /\ linesRead > 0 /\ userInput = "") =>
        /\ pc \in {"reading", "stopped"}
        /\ (pc = "reading" /\ linesRead < MaxLines) => ENABLED LineRead
        /\ pc = "reading" => ENABLED InputCloses
        /\ ~ENABLED NextAutonomous

\* C36: in interactive mode an input line that is empty after trimming is a
\* no-op: nothing is appended to the history, no inference call is made, no
\* tool runs and nothing is logged, and the session stays ready for the next
\* line.
C36_BlankLineIsNoOp ==
    /\ []C36_ReadyAfterBlankLine
    /\ [][C36_BlankLineRead =>
            /\ pc' = "reading"
            /\ messages' = messages
            /\ inferenceCalls' = inferenceCalls
            /\ iteration' = iteration
            /\ toolUses' = toolUses
            /\ exec' = exec
            /\ completed' = completed
            /\ netLog' = netLog
            /\ lastTurn' = lastTurn
            /\ console' = console
            /\ ctx' = ctx]_vars

\* a line of blanks came after a line that was served: the history still ends
\* with the answer to the first line
C36_Witness ==
    /\ mode = "interactive"
    /\ linesRead = 2
    /\ userInput = ""
    /\ pc = "reading"
    /\ lastTurn.line = 1
    /\ lastTurn.why = "no_tool_use"
    /\ Len(messages) = 2
    /\ messages[2].role = "assistant"
    /\ inferenceCalls = 1

\* the categories of an inference failure in the order they are tested, each
\* with the texts that signal it and the line logged for it
C37_Categories ==
    << [signals |-> {"401", "authentication"}, line |-> "api_error: authentication"],
       [signals |-> {"429", "rate"},           line |-> "api_error: rate limit"],
       [signals |-> {"overloaded", "529"},     line |-> "api_error: overloaded"] >>

\* the line for a message made of the given words: the earliest category one
\* of the words signals, or the message itself
C37_LineFor(words, msg) ==
    LET hit == { k \in 1..Len(C37_Categories) : words \cap C37_Categories[k].signals # {} } IN
    IF hit = {} THEN "api_error: " \o msg
    ELSE C37_Categories[CHOOSE k \in hit : \A j \in hit : k <= j].line

\* the text of the value thrown
C37_Text ==
    IF thrown.isError THEN thrown.message
    ELSE CASE thrown.type \in {"string", "number"} -> thrown.text
           [] thrown.type = "object"               -> "[object Object]"
           [] OTHER                                -> thrown.type

\* C37: an inference failure is classified by first match in a fixed order:
\* authentication ("401" or "authentication"), then rate limit ("429" or
\* "rate"), then overloaded ("overloaded" or "529"), then unclassified with the
\* message itself; a message that matches several categories is reported as
\* the earliest one, in whatever order it is written. Exactly one line is
\* logged, the history is untouched and the turn reports finished whatever the
\* category: the autonomous run logs finished and stops, the interactive
\* sub-loop goes back to reading.
C37_FailureIsClassifiedByFirstMatch ==
    pc # "awaiting" =>
        /\ lastTurn.done
        /\ lastTurn.why = "api_error"
        /\ Len(messages) = 1
        /\ inferenceCalls = 1
        /\ exec = <<>>
        /\ netLog = {}
        /\ console # <<>>
        /\ LET line == IF mode = "autonomous" THEN console[1] ELSE console[2] IN
           /\ \A a \in ApiWords : C37_Text = a => line = C37_LineFor({a}, C37_Text)
           /\ \A a, b \in ApiWords :
                 C37_Text = a \o " " \o b => line = C37_LineFor({a, b}, C37_Text)
           /\ C37_Text \notin ApiMessages => line = "api_error: " \o C37_Text
        /\ IF mode = "autonomous"
           THEN pc = "stopped" /\ Len(console) = 2 /\ console[2] = "finished"
           ELSE pc = "reading" /\ Len(console) = 2

\* a message that names the overload first and the authentication failure
\* second was reported as an authentication failure
C37_Witness ==
    /\ mode = "autonomous"
    /\ pc = "stopped"
    /\ thrown = ErrorObject("529 401")
    /\ console = <<"api_error: authentication", "finished">>
    /\ lastTurn.done

\* the fields of the configuration an update of the field may change
C38_Named(field) ==
    CASE field = "team-members"   -> {"team_members"}
      [] field = "repos"          -> {"github_repos", "hasGithubRepos", "github_owner", "github_repo"}
      [] field = "lookback-hours" -> {"lookback_hours"}
      [] field = "timezone"       -> {"timezone", "timezoneValid"}
      [] field = "schedule"       -> {"schedule"}
      [] field = "slack-channel"  -> {"slack_channel_id"}
      [] field = "slack-token"    -> {"slack_user_token"}
      [] field = "github-token"   -> {"github_token"}
      [] field = "anthropic-key"  -> {"anthropic_api_key"}
      [] OTHER                    -> {}

\* the lines of .env an update of the field may change
C38_NamedInEnv(field) ==
    CASE field = "repos"         -> {"GITHUB_OWNER", "GITHUB_REPO"}
      [] field = "slack-channel" -> {"SLACK_CHANNEL_ID"}
      [] field = "slack-token"   -> {"SLACK_USER_TOKEN"}
      [] field = "github-token"  -> {"GITHUB_TOKEN"}
      [] field = "anthropic-key" -> {"ANTHROPIC_API_KEY"}
      [] OTHER                   -> {}

\* the values that write a positive number
C38_PositiveNumbers == { <<"4", "8">>, <<" ", "7">>, <<"1", ".", "5">> }

\* the values that start with a positive number and go on with something else
C38_NumberThenText == { <<"4", "8", "h">> }

\* the value is a list of entries one of which is neither blank nor a pair
C38_MalformedRepos(value) ==
    \/ value \in LookbackValues
    \/ \E es \in UpdateEntryLists :
          /\ value = JoinChars(es, ",")
          /\ \E i \in 1..Len(es) : ~C27_IsPair(es[i]) /\ ~C27_IsBlank(es[i])

\* the value is a list of blank entries
C38_NoEntry(value) ==
    \E es \in UpdateEntryLists :
        value = JoinChars(es, ",") /\ \A i \in 1..Len(es) : C27_IsBlank(es[i])

\* the cases in which the command is to exit with an error, the hours that are
\* to be accepted given
C38_MustExit(field, value, hoursAccepted) ==
    \/ value = <<>>
    \/ C38_Named(field) = {}
    \/ field = "repos" /\ C38_MalformedRepos(value)
    \/ field = "team-members" /\ C38_NoEntry(value)
    \/ field = "lookback-hours" /\ value \notin hoursAccepted

\* one run of the update command: it exits in the cases above; when it exits
\* config.json and .env are as they were; when it writes, config.json differs
\* in the named field only and .env in the lines of that field only
C38_UpdateStep(hoursAccepted) ==
    pc = "update" =>
        /\ pc' \in {"exited", "written"}
        /\ C38_MustExit(args[1], args[2], hoursAccepted) => pc' = "exited"
        /\ pc' = "exited" => (config' = config /\ envFile' = envFile)
        /\ pc' = "written" =>
              /\ DOMAIN config' = DOMAIN config
              /\ \A f \in DOMAIN config \ C38_Named(args[1]) : config'[f] = config[f]
              /\ DOMAIN envFile' = DOMAIN envFile
              /\ \A k \in DOMAIN envFile \ C38_NamedInEnv(args[1]) : envFile'[k] = envFile[k]
              /\ envFile' = EnvOf(config')

\* C38: updateConfig changes persisted state only on success: with an empty
\* value, an unknown field, a malformed owner/repo entry, an empty member
\* list, or lookback hours that are not a number or not positive, it exits
\* with an error before writeConfig is called and leaves config.json and .env
\* unchanged; on success it changes only the named field (and the primary
\* repository for repos).
C38_UpdateWritesOnlyOnSuccess == [][C38_UpdateStep(C38_PositiveNumbers)]_vars

\* the same with the hours parseInt accepts: those that start with a positive
\* number
C38_UpdateWritesWhatParses ==
    [][C38_UpdateStep(C38_PositiveNumbers \cup C38_NumberThenText)]_vars

\* lookback hours written as 48h were stored as 48
C38_HoursWithTextStored ==
    /\ pc = "written"
    /\ args = << "lookback-hours", <<"4", "8", "h">> >>
    /\ config.lookback_hours = 48

\* the console lines of the scheduler's catch, one per failed run
C39_FailureLines ==
    Cardinality({ j \in 1..Len(console) :
        console[j] \in { "scheduled_job_failed: " \o RangeErrorText,
                         "scheduled_job_failed: An API error occurred: invalid_auth" } })

C39_Failed == { i \in 1..Len(cronTask.runs) : cronTask.runs[i].phase = "failed" }

\* C39: a scheduled job run that throws is caught and logged by the
\* scheduler: every failed run has its line with the message of the error,
\* the failure goes no further (the process keeps running and no line of an
\* uncaught error is written), and the schedule stays active: after any
\* number of failed runs the next tick is accepted, and every tick so far
\* started the job, also while and after earlier runs failed.
C39_FailedRunIsCaughtAndLogged ==
    (mode = "schedule" /\ C39_Failed # {}) =>
        /\ pc = "scheduled"
        /\ C39_FailureLines = Cardinality(C39_Failed)
        /\ \A i \in C39_Failed :
              \E j \in 1..Len(console) :
                  console[j] = "scheduled_job_failed: " \o cronTask.runs[i].error
        /\ \A j \in 1..Len(console) : console[j] \notin {"uncaught: " \o e : e \in
                {RangeErrorText, "An API error occurred: invalid_auth"}}
        /\ Len(cronTask.runs) < MaxTicks => ENABLED Tick
        /\ Cardinality({ j \in 1..Len(console) : console[j] = "running_scheduled" })
              = Len(cronTask.runs)

\* the first run failed and was logged, and the ticks after it started the job
\* again: the second run ended well, the third is running
C39_Witness ==
    /\ mode = "schedule"
    /\ pc = "scheduled"
    /\ Len(cronTask.runs) = 3
    /\ cronTask.runs[1].phase = "failed"
    /\ cronTask.runs[2].phase = "done"
    /\ cronTask.runs[3].phase = "running"
    /\ console[3] = "scheduled_job_failed: An API error occurred: invalid_auth"

====
